---- MODULE Spec2Model ----
(***************************************************************************)
(* Model of the two OpenMP programs of the repository:                     *)
(*   parallel_maximum.cpp  - four parallel maximum strategies + sequential *)
(*   prefix_sum_scan.cpp   - Blelloch scan, block scan + sequential scan   *)
(* Arrays are functions over 0..len-1, as the source indexes them.         *)
(* The iterations of a "#pragma omp parallel for" run one at a time in any *)
(* order; the threads of a "#pragma omp parallel" region run one at a time *)
(* in any order; the end of the region is the barrier.                     *)
(***************************************************************************)
EXTENDS Integers, Sequences, FiniteSets, TLC

\* ---------------------------------------------------------------- bounds
MaxN == 4          \* largest generated array size
MaxVal == 1        \* generated values: 0..MaxVal (maximum), 1..MaxVal+1 (scan)
MaxW == 4          \* largest value of omp_get_max_threads()
MaxCmp == 2        \* longest array handed to verify_arrays by itself
NarrowBits == 5    \* width of int in the runs that reach the end of the int range

\* ------------------------------------------------------ program constants
INT_MIN == (-2147483647) - 1
IntBits == 32
PrintLimit == 16
MainNumThreads == 4

ScenarioA == [i \in 0..7 |-> <<456, 789, 123, 890, 234, 567, 345, 678>>[i + 1]]
ScenarioB == [i \in 0..7 |-> <<12, 34, 21, 45, 23, 18, 36, 29>>[i + 1]]

\* ------------------------------------------------------------ pure helpers
Pow2(k) == 2 ^ k

\* std::max(a, b)
MaxOf(a, b) == IF a < b THEN b ELSE a

\* std::min(a, b)
MinOf(a, b) == IF b < a THEN b ELSE a

\* vector<int> of length len filled with v
Filled(len, v) == [i \in 0..(len - 1) |-> v]

\* the first min(n, 16) elements a debug line prints
PrintedPrefix(buf, len) == [i \in 0..(MinOf(len, PrintLimit) - 1) |-> buf[i]]

\* v.size()
Size(a) == Cardinality(DOMAIN a)

\* least and greatest int of a width
MinInt(bits) == IF bits = IntBits THEN INT_MIN ELSE -Pow2(bits - 1)
MaxInt(bits) == -(MinInt(bits) + 1)

\* x - 1 in an int of the given width (the build wraps at the least int)
Dec(x, bits) == IF x = MinInt(bits) THEN MaxInt(bits) ELSE x - 1

\* 1 << k in an int of the given width: a count outside 0..bits-1 is taken
\* modulo the width by the shift instruction, bit bits-1 is the sign bit
Shl1(k, bits) ==
    IF (k % bits) = bits - 1 THEN MinInt(bits) ELSE Pow2(k % bits)

\* 2 * x in an int of the given width, for x the least int, x = 2^(bits-2) or
\* x within half the range (the build wraps)
Twice(x, bits) ==
    IF x = MinInt(bits) THEN 0
    ELSE IF x = Pow2(bits - 2) THEN MinInt(bits)
    ELSE 2 * x

\* "#pragma omp parallel for" over "for (i = 0; i < len; i += inc)" in an int of
\* the given width: the build counts the iterations as (len + inc - 1) / inc
\* before it runs any. With inc > 0 and len + inc - 1 within the range the loop
\* runs its iterations; when len + inc - 1 passes the greatest int (the counter
\* i would pass it after the last iteration) the sum wraps below 0, the count
\* is not positive and no iteration runs; an inc that wrapped below 0 gives no
\* iteration at all, or an iteration at a wrapped index; inc = 0 gives a
\* division by zero when the iterations are counted, or a run that goes on in a
\* state nothing determines
LoopOutcomes(len, inc, bits) ==
    IF inc > 0 THEN (IF len > MaxInt(bits) - inc + 1 THEN {"skipped"} ELSE {"runs"})
    ELSE IF inc < 0 THEN {"skipped", "segfault"}
    ELSE {"sigfpe", "undefined"}
LoopPc(o, next) ==
    IF o \in {"runs", "skipped"} THEN next
    ELSE IF o = "undefined" THEN "undefined" ELSE "crashed"
LoopFailure(o, f) == IF o \in {"runs", "skipped"} THEN f ELSE o

\* what an indeterminate int may hold
Garbage(bits) == {MinInt(bits), 0}

\* reading buf[i]: the element, or past the end of the vector any of a
\* segmentation fault and an indeterminate value
ReadOutcomes(buf, i, bits) ==
    IF i \in DOMAIN buf
    THEN {[sig |-> "none", val |-> buf[i]]}
    ELSE {[sig |-> "segfault", val |-> 0]}
            \cup {[sig |-> "none", val |-> v] : v \in Garbage(bits)}

\* indexing a vector far past its end: a segmentation fault, or a run that goes
\* on in a state nothing determines
WildAccess == {"segfault", "undefined"}

\* where a function returns to: the next statement of main, or its own caller
Return(next, d) == IF d THEN "done" ELSE next

\* main: if (n <= 0) { error; return 1; }
InvalidSizeStrict(sz) == sz < 0
InvalidSize(sz) == sz <= 0

\* ------------------------------------------------- parallel_maximum.cpp
\* Method 2/4: the iterations of "for (i = 0; i < n; i += 2 * stride)"
LevelItersWide(len, s) == {i \in 0..(len - 1) : i % s = 0}
LevelIters(len, s) == {i \in 0..(len - 1) : i % (2 * s) = 0}

\* Method 2: while (stride < n)
WhileCondInclusive(s, len) == s <= len
WhileCond(s, len) == s < len

\* Method 2/4 boundary check: if (i + stride < n)
HasPartnerInclusive(i, s, len) == i + s <= len
HasPartner(i, s, len) == i + s < len

\* Method 2: stride *= 2
NextStrideStuck(s, bits) == s
NextStride(s, bits) == Twice(s, bits)

\* Method 2/4 loop body: if (i + stride < n) temp[i] = max(temp[i], temp[i+stride])
TreeStepPartner(buf, i, s, len) ==
    IF i + s < len THEN [buf EXCEPT ![i] = buf[i + s]] ELSE buf
TreeStepNeighbour(buf, i, s, len) ==
    IF i + s < len THEN [buf EXCEPT ![i] = MaxOf(buf[i], buf[i + 1])] ELSE buf
TreeStep(buf, i, s, len) ==
    IF HasPartner(i, s, len) THEN [buf EXCEPT ![i] = MaxOf(buf[i], buf[i + s])] ELSE buf

\* vector<int> temp(arr) copies: the vector of the caller after a write that
\* leaves buf in temp is the vector a it was
CallerVectorShared(a, buf) == buf
CallerVector(a, buf) == a

\* max-combines iteration i of a level performs: one if its boundary check holds
TreeCombinesEach(i, s, len) == 1
TreeCombines(i, s, len) == IF HasPartner(i, s, len) THEN 1 ELSE 0

\* the elements of temp the loop body of iteration i reads and writes
TreeReads(i, s, len) == IF HasPartner(i, s, len) THEN {i, i + s} ELSE {}
TreeWrites(i, s, len) == IF HasPartner(i, s, len) THEN {i} ELSE {}

\* Method 4: while (temp_n > 1) { temp_n = (temp_n + 1) / 2; levels++; }
RECURSIVE ExplicitLevels(_)
ExplicitLevelsFloor(temp_n) ==
    IF temp_n > 1 THEN 1 + ExplicitLevels(temp_n \div 2) ELSE 0
ExplicitLevels(temp_n) ==
    IF temp_n > 1 THEN 1 + ExplicitLevels((temp_n + 1) \div 2) ELSE 0

\* Method 3 / block scan: chunk_size = (n + num_threads - 1) / num_threads
ChunkSize(len, w) == (len + w - 1) \div w

\* start = tid * chunk_size; end = min(start + chunk_size, n)
ChunkStart(tid, len, w) == tid * ChunkSize(len, w)
ChunkEndNoClamp(tid, len, w) == ChunkStart(tid, len, w) + ChunkSize(len, w)
ChunkEnd(tid, len, w) == MinOf(ChunkStart(tid, len, w) + ChunkSize(len, w), len)

\* the indices of "for (i = start; i < end; i++)" of thread tid
BlockRange(tid, len, w) == ChunkStart(tid, len, w)..(ChunkEnd(tid, len, w) - 1)

\* for (i = lo; i < hi; i++) if (a[i] > m) m = a[i];
RECURSIVE ScanMax(_, _, _, _)
ScanMax(a, lo, hi, m) ==
    IF lo < hi THEN ScanMax(a, lo + 1, hi, IF a[lo] > m THEN a[lo] ELSE m) ELSE m

\* sequential_max
sequential_max(a, len) == ScanMax(a, 0, len, INT_MIN)

\* Method 1: iterations of thread t under the static schedule of the
\* "parallel for" (n / team each, the first n % team threads one more)
StaticLo(t, len, tm) == t * (len \div tm) + MinOf(t, len % tm)
StaticHi(t, len, tm) == StaticLo(t + 1, len, tm)

\* Method 3: for (i = 0; i < num_threads; i++) max_val = max(max_val, partial_max[i])
RECURSIVE FoldMax(_, _, _, _)
FoldMax(p, lo, hi, m) ==
    IF lo < hi THEN FoldMax(p, lo + 1, hi, MaxOf(m, p[lo])) ELSE m

\* --------------------------------------------------- prefix_sum_scan.cpp
\* log_n = (int)ceil(log2(n)) for n >= 1: the least k with 2^k >= n
LogNFloor(len) == CHOOSE k \in 0..31 : Pow2(k) <= len /\ len < Pow2(k + 1)
LogN(len) == CHOOSE k \in 0..31 : Pow2(k) >= len /\ \A j \in 0..(k - 1) : Pow2(j) < len

\* n = 1 << log_n
PaddedN(len) == Pow2(LogN(len))

\* log_n as the build computes it: for n = 0, log2 gives -infinity, whose
\* conversion to int gives the least int
LogNInt(len, bits) == IF len >= 1 THEN LogN(len) ELSE MinInt(bits)

\* n = 1 << log_n in an int of the given width
PaddedCap(len, bits) == Shl1(LogNInt(len, bits), bits)

\* vector<int> temp(n, 0); for (i < original_n) temp[i] = arr[i]
PaddedBuffer(a, len) == [i \in 0..(PaddedN(len) - 1) |-> IF i < len THEN a[i] ELSE 0]

\* stride = 1 << (d + 1); offset = (1 << d) - 1
StrideOf(d) == Pow2(d + 1)
OffsetOfNoMinus(d) == Pow2(d)
OffsetOf(d) == Pow2(d) - 1

\* the iterations of "for (i = 0; i < n; i += stride)"
SweepItersOverlap(p, d) == {i \in 0..(p - StrideOf(d)) : i % Pow2(d) = 0}
SweepIters(p, d) == {i \in 0..(p - 1) : i % StrideOf(d) = 0}

\* upsweep body: temp[i + stride - 1] += temp[i + offset]
UpStepAssign(buf, i, d) ==
    [buf EXCEPT ![i + StrideOf(d) - 1] = buf[i + OffsetOf(d)]]
UpStep(buf, i, d) ==
    [buf EXCEPT ![i + StrideOf(d) - 1] = buf[i + StrideOf(d) - 1] + buf[i + OffsetOf(d)]]

\* downsweep body: t = temp[i+offset]; temp[i+offset] = temp[i+stride-1];
\*                 temp[i+stride-1] += t
DownStepNoTemp(buf, i, d) ==
    [buf EXCEPT ![i + OffsetOf(d)] = buf[i + StrideOf(d) - 1],
                ![i + StrideOf(d) - 1] = buf[i + StrideOf(d) - 1] + buf[i + StrideOf(d) - 1]]
DownStepNoSwap(buf, i, d) ==
    [buf EXCEPT ![i + StrideOf(d) - 1] = buf[i + StrideOf(d) - 1] + buf[i + OffsetOf(d)]]
DownStep(buf, i, d) ==
    [buf EXCEPT ![i + OffsetOf(d)] = buf[i + StrideOf(d) - 1],
                ![i + StrideOf(d) - 1] = buf[i + StrideOf(d) - 1] + buf[i + OffsetOf(d)]]

\* the elements of temp the upsweep and the downsweep body of iteration i read
\* and write
UpReads(i, d) == {i + StrideOf(d) - 1, i + OffsetOf(d)}
UpWrites(i, d) == {i + StrideOf(d) - 1}
DownReads(i, d) == {i + OffsetOf(d), i + StrideOf(d) - 1}
DownWrites(i, d) == {i + OffsetOf(d), i + StrideOf(d) - 1}

\* the root of the tree in a buffer of capacity p: temp[n - 1]
RootIndexFirst(p) == 0
RootIndex(p) == p - 1

\* result[i] = temp[i] + arr[i] for i < original_n
InclusiveExcl(buf, a, len) == [i \in 0..(len - 1) |-> buf[i]]
Inclusive(buf, a, len) == [i \in 0..(len - 1) |-> buf[i] + a[i]]

\* The same scan over an operation that need not commute: a buffer cell holds
\* the word of the input positions it combines, combine is concatenation, the
\* identity is the empty word. Operand orders as specified for the scan:
\* upsweep     buffer[i+stride-1] = combine(buffer[i+offset], buffer[i+stride-1])
\* downsweep   t = buffer[i+offset]; buffer[i+offset] = buffer[i+stride-1];
\*             buffer[i+stride-1] = combine(t, buffer[i+stride-1])
\* result      result[i] = combine(buffer[i], original[i])
combine(x, y) == x \o y
Words(len) == [i \in 0..(PaddedN(len) - 1) |-> IF i < len THEN <<i>> ELSE <<>>]
WordUpStep(buf, i, d) ==
    [buf EXCEPT ![i + StrideOf(d) - 1] =
                    combine(buf[i + OffsetOf(d)], buf[i + StrideOf(d) - 1])]
WordDownStepLost(buf, i, d) ==
    [buf EXCEPT ![i + OffsetOf(d)] = buf[i + StrideOf(d) - 1]]
WordDownStep(buf, i, d) ==
    [buf EXCEPT ![i + OffsetOf(d)] = buf[i + StrideOf(d) - 1],
                ![i + StrideOf(d) - 1] =
                    combine(buf[i + OffsetOf(d)], buf[i + StrideOf(d) - 1])]
WordClearRoot(buf, p) == [buf EXCEPT ![RootIndex(p)] = <<>>]
WordInclusive(buf, len) == [i \in 0..(len - 1) |-> combine(buf[i], <<i>>)]

\* sequential_prefix_sum: result[0] = arr[0]; result[i] = result[i-1] + arr[i]
RECURSIVE RunningSum(_, _, _)
RunningSum(a, lo, i) == IF i < lo THEN 0 ELSE RunningSum(a, lo, i - 1) + a[i]
sequential_prefix_sum(a, len) == [i \in 0..(len - 1) |-> RunningSum(a, 0, i)]

\* block scan phase 1, one thread: local running sums over [start, end)
BlockLocal(res, a, lo, hi) ==
    [i \in DOMAIN res |-> IF lo <= i /\ i < hi THEN RunningSum(a, lo, i) ELSE res[i]]

\* block scan phase 2: block_prefix[0] = 0; block_prefix[i] = block_prefix[i-1] + block_sums[i-1]
BlockPrefix(sums, w) == [k \in 0..(w - 1) |-> RunningSum(sums, 0, k - 1)]

\* block scan phase 3, one thread: result[i] += block_prefix[tid] over [start, end)
BlockAdd(res, lo, hi, off) ==
    [i \in DOMAIN res |-> IF lo <= i /\ i < hi THEN res[i] + off ELSE res[i]]

\* verify_arrays: if (a.size() != b.size()) return false;
\* for (i = 0; i < a.size(); i++) if (a[i] != b[i]) { "Mismatch at index i"; return false; }
\* return true;   -- with the line written and the number of indices examined
\* a[i] != b[i]
ElemDiffersBelow(x, y) == x < y
ElemDiffers(x, y) == x # y

RECURSIVE VerifyLoop(_, _, _)
VerifyLoop(a, b, i) ==
    IF i < Size(a)
    THEN IF ElemDiffers(a[i], b[i])
         THEN [ok |-> FALSE, reported |-> <<i>>, examined |-> i + 1]
         ELSE VerifyLoop(a, b, i + 1)
    ELSE [ok |-> TRUE, reported |-> << >>, examined |-> i]
VerifyRun(a, b) ==
    IF Size(a) # Size(b)
    THEN [ok |-> FALSE, reported |-> << >>, examined |-> 0]
    ELSE VerifyLoop(a, b, 0)
verify_arrays(a, b) == VerifyRun(a, b).ok

\* ------------------------------------------- the engines run by one thread
\* (a team of one runs the iterations of every level in index order)
LeastOf(S) == CHOOSE x \in S : \A y \in S : x <= y

\* Method 2: one level, then the while loop, in index order; returns temp[0]
RECURSIVE TreeLevelAsc(_, _, _, _)
TreeLevelAsc(buf, S, s, len) ==
    IF S = {} THEN buf
    ELSE TreeLevelAsc(TreeStep(buf, LeastOf(S), s, len), S \ {LeastOf(S)}, s, len)
RECURSIVE TreeRunAsc(_, _, _)
TreeRunAsc(buf, s, len) ==
    IF WhileCond(s, len) THEN TreeRunAsc(TreeLevelAsc(buf, LevelIters(len, s), s, len), s * 2, len)
    ELSE buf[0]

\* Method 2: number of passes of "while (stride < n) { ...; stride *= 2; }"
RECURSIVE TreeLevels(_, _)
TreeLevels(s, len) == IF WhileCond(s, len) THEN 1 + TreeLevels(s * 2, len) ELSE 0

\* Method 3 with w threads, in thread order
SectionsAsc(a, len, w) ==
    FoldMax([tid \in 0..(w - 1) |->
                ScanMax(a, ChunkStart(tid, len, w), ChunkEnd(tid, len, w), INT_MIN)],
            0, w, INT_MIN)

\* Blelloch: one level of a sweep, the upsweep loop, the downsweep loop, in index order
RECURSIVE SweepAsc(_, _, _, _)
SweepAsc(buf, S, d, up) ==
    IF S = {} THEN buf
    ELSE SweepAsc(IF up THEN UpStep(buf, LeastOf(S), d) ELSE DownStep(buf, LeastOf(S), d),
                  S \ {LeastOf(S)}, d, up)
RECURSIVE UpRunAsc(_, _, _, _)
UpRunAsc(buf, d, logn, p) ==
    IF d < logn THEN UpRunAsc(SweepAsc(buf, SweepIters(p, d), d, TRUE), d + 1, logn, p)
    ELSE buf
RECURSIVE DownRunAsc(_, _, _)
DownRunAsc(buf, d, p) ==
    IF d >= 0 THEN DownRunAsc(SweepAsc(buf, SweepIters(p, d), d, FALSE), d - 1, p)
    ELSE buf
BlellochAsc(a, len) ==
    LET p == PaddedN(len)
        up == UpRunAsc(PaddedBuffer(a, len), 0, LogN(len), p)
        down == DownRunAsc([up EXCEPT ![p - 1] = 0], LogN(len) - 1, p)
    IN  Inclusive(down, a, len)

\* block scan with w threads, in thread order
RECURSIVE Phase1Asc(_, _, _, _, _)
Phase1Asc(res, a, tid, len, w) ==
    IF tid < w
    THEN Phase1Asc(BlockLocal(res, a, ChunkStart(tid, len, w), ChunkEnd(tid, len, w)),
                   a, tid + 1, len, w)
    ELSE res
BlockSumsAsc(a, len, w) ==
    [tid \in 0..(w - 1) |->
        IF ChunkStart(tid, len, w) < ChunkEnd(tid, len, w)
        THEN RunningSum(a, ChunkStart(tid, len, w), ChunkEnd(tid, len, w) - 1)
        ELSE 0]
RECURSIVE Phase3Asc(_, _, _, _, _)
Phase3Asc(res, pre, tid, len, w) ==
    IF tid < w
    THEN Phase3Asc(BlockAdd(res, ChunkStart(tid, len, w), ChunkEnd(tid, len, w), pre[tid]),
                   pre, tid + 1, len, w)
    ELSE res
RecursiveAsc(a, len, w) ==
    Phase3Asc(Phase1Asc(Filled(len, 0), a, 0, len, w),
              BlockPrefix(BlockSumsAsc(a, len, w), w), 0, len, w)

\* the barrier at the end of a parallel for or of a parallel region lets the
\* program go on when no iteration or thread of it is still to run
BarrierEarly(p) == Cardinality(p) <= 1
BarrierReached(p) == p = {}

\* threads of the team an "omp parallel" region gets when w are requested:
\* never more than the thread limit of the process (thread-limit-var, set by
\* OMP_THREAD_LIMIT) allows; with dynamic adjustment (dyn-var) off as many as
\* that, with it on any number up to that
TeamSizes(w, dyn, limit) == IF dyn THEN 1..MinOf(w, limit) ELSE {MinOf(w, limit)}


\* ------------------------------------------------------------------ state
VARIABLES
    prog,         \* "max": parallel_maximum.cpp, "scan": prefix_sum_scan.cpp
    pc,           \* position of the program in main and in the running engine
    n,            \* main: int n (cin >> n)
    arr,          \* main: vector<int> arr
    num_threads,  \* value omp_get_max_threads() returns after omp_set_num_threads
    dyn_var,      \* OpenMP dyn-var: may a region get fewer threads than available
    thread_limit, \* OpenMP thread-limit-var: most threads the process may use
    team,         \* number of threads of the current parallel region
    temp,         \* working buffer of the running engine
    stride,       \* Method 2/4: int stride
    level,        \* Method 4: int level; Blelloch: int d
    levels,       \* Method 4: int levels; Blelloch: int log_n
    pending,      \* iterations / threads of the current region not yet run
    partial,      \* per-thread array: reduction copies, partial_max, block_sums
    block_prefix, \* block scan: vector<int> block_prefix
    result,       \* block scan: vector<int> result
    total_sum,    \* Blelloch: int total_sum
    syncs,        \* barriers passed by the running engine
    ret,          \* values returned to main, by variable name
    started,      \* engines that have been called
    returned,     \* engines that have returned
    printed,      \* debug lines written to cout, in order
    exit_code,    \* return value of main, -1 while running
    reordered,    \* history: the running engine ran a step out of index order
    direct,       \* the engine at pc was called by itself, not by main
    int_bits,     \* width of int in bits
    failure,      \* how the run failed: "none", or the exception or signal raised
    alloc_n,      \* Blelloch: the n that vector<int> temp(n, 0) was called with
    sym,          \* history: the Blelloch buffer over words, each cell the input
                  \* positions it combines, in the order of the operands
    ops           \* history: combine operations the running phase has performed

vars == <<prog, pc, n, arr, num_threads, dyn_var, thread_limit,
          team, temp, stride, level, levels,
          pending, partial, block_prefix, result, total_sum, syncs, ret, started,
          returned, printed, exit_code, reordered, direct, int_bits, failure, alloc_n,
          sym, ops>>

runVars == <<prog, n, arr, num_threads, dyn_var, thread_limit, exit_code, direct,
            int_bits>>
cfgVars == <<runVars, failure, alloc_n>>
envVars == <<cfgVars, reordered>>
maxLoopVars == <<stride, level, levels>>
blockVars == <<partial, block_prefix, result, total_sum>>
ghostVars == <<sym, ops>>

Empty == Filled(0, 0)

\* one line of output: what it is, two numbers, and the buffer it shows
Line(tag, a, b, buf) == [tag |-> tag, a |-> a, b |-> b, buf |-> buf]

\* sizes the user may type
SizeInputs == (-1..MaxN) \cup {8}

\* arr[i] = rand() % 1000 (maximum), rand() % 100 + 1 (scan), within the bounds
Values(p) == IF p = "max" THEN 0..MaxVal ELSE 1..(MaxVal + 1)
Inputs(p, sz) ==
    (IF sz <= MaxN THEN [0..(sz - 1) -> Values(p)] ELSE {})
        \cup (IF sz = 8 THEN {IF p = "max" THEN ScenarioA ELSE ScenarioB} ELSE {})

\* the variables of main before the engines assign them
Ret0 ==
    [max1 |-> 0, max2 |-> 0, max3 |-> 0, max4 |-> 0, max_seq |-> 0,
     all_correct |-> FALSE, result_seq |-> Empty, result1 |-> Empty,
     result3 |-> Empty, verify1 |-> FALSE, verify3 |-> FALSE,
     all_methods |-> FALSE]

\* no engine has run
InitEngine ==
    /\ team = 1
    /\ temp = Empty
    /\ stride = 0
    /\ level = 0
    /\ levels = 0
    /\ pending = {}
    /\ partial = Empty
    /\ block_prefix = Empty
    /\ result = Empty
    /\ total_sum = 0
    /\ syncs = 0
    /\ started = {}
    /\ returned = {}
    /\ printed = <<>>
    /\ exit_code = -1
    /\ reordered = FALSE
    /\ failure = "none"
    /\ alloc_n = 0
    /\ sym = Empty
    /\ ops = 0

\* a run of main
InitCommon ==
    /\ prog \in {"max", "scan"}
    /\ pc = "read"
    /\ n = 0
    /\ arr = Empty
    /\ num_threads = 1
    /\ ret = Ret0
    /\ direct = FALSE
    /\ int_bits = IntBits
    /\ InitEngine

\* the thread limits that tell runs apart: a limit above the greatest request
\* gives the runs of that request
ThreadLimits == 1..MaxW

Init == InitCommon /\ dyn_var = FALSE /\ thread_limit \in ThreadLimits

\* an engine called by itself: the two tree reductions and the Blelloch scan on
\* a sequence of any length from 0, and in a narrow int on lengths past a
\* quarter of the range: the Blelloch scan on the two ends of these lengths,
\* the tree reductions on the least of them, the one greatest element last or
\* at an eighth of the range
DirectCalls == {<<"max", "m2_call">>, <<"max", "m4_call">>, <<"scan", "bl_call">>}
GreatestAt(len, k) == [i \in 0..(len - 1) |-> IF i = k THEN 1 ELSE 0]
MarkerPlaces(len, bits) == {len - 1, Pow2(bits - 3)}
OverflowSizes(bits) == {Pow2(bits - 2) + 1, MaxInt(bits)}
InitDirectEngine ==
    /\ \E c \in DirectCalls : prog = c[1] /\ pc = c[2]
    /\ \E b \in {IntBits, NarrowBits} :
        /\ int_bits = b
        /\ IF b = IntBits
           THEN n \in 0..MaxN /\ arr \in Inputs(prog, n)
           ELSE IF pc = "bl_call"
           THEN n \in OverflowSizes(b) /\ arr = Filled(n, 1)
           ELSE /\ n = Pow2(b - 2) + 1
                /\ \E k \in MarkerPlaces(n, b) : arr = GreatestAt(n, k)
    /\ num_threads = MainNumThreads
    /\ ret = Ret0
    /\ direct = TRUE
    /\ InitEngine

\* verify_arrays called by itself on two arrays of any lengths
CmpArrays == UNION {[0..(len - 1) -> Values("scan")] : len \in 0..MaxCmp}
InitDirectVerify ==
    /\ prog = "scan"
    /\ pc = "verify_call"
    /\ n = 0
    /\ arr = Empty
    /\ num_threads = MainNumThreads
    /\ \E a \in CmpArrays, b \in CmpArrays :
          ret = [Ret0 EXCEPT !.result1 = a, !.result_seq = b]
    /\ direct = TRUE
    /\ int_bits = IntBits
    /\ InitEngine

\* a run of main with dynamic adjustment of the team on or off; with it on, the
\* greatest limit gives every team a lower limit gives
InitTeam ==
    /\ InitCommon
    /\ dyn_var \in BOOLEAN
    /\ thread_limit \in IF dyn_var THEN {MaxW} ELSE ThreadLimits

InitDirect ==
    /\ InitCommon \/ InitDirectEngine \/ InitDirectVerify
    /\ dyn_var = FALSE
    /\ thread_limit \in IF direct THEN {MaxW} ELSE ThreadLimits

\* ------------------------------------------------------------------- main
\* cin >> n; if (n <= 0) { cout << "Error..."; return 1; }
ReadSize ==
    /\ pc = "read"
    /\ \E sz \in SizeInputs :
        /\ n' = sz
        /\ IF InvalidSize(sz)
           THEN /\ pc' = "exit"
                /\ exit_code' = 1
                /\ printed' = Append(printed, Line("size_error", sz, 0, Empty))
           ELSE /\ pc' = "generate"
                /\ UNCHANGED <<exit_code, printed>>
    /\ UNCHANGED <<prog, arr, num_threads, dyn_var, thread_limit,
                   direct, int_bits, failure, alloc_n,
                   reordered, team, temp, maxLoopVars, pending,
                   blockVars, syncs, ret, started, returned>>
    /\ UNCHANGED ghostVars

\* vector<int> arr(n); for (i < n) arr[i] = rand() % ...
Generate ==
    /\ pc = "generate"
    /\ arr' \in Inputs(prog, n)
    /\ pc' = "set_threads"
    /\ UNCHANGED <<prog, n, num_threads, dyn_var, thread_limit,
                   direct, int_bits, failure, alloc_n,
                   reordered, exit_code, team, temp, maxLoopVars,
                   pending, blockVars, syncs, ret, started, returned, printed>>
    /\ UNCHANGED ghostVars

\* omp_set_num_threads(num_threads)
SetThreads ==
    /\ pc = "set_threads"
    /\ num_threads' \in 1..MaxW
    /\ pc' = IF prog = "max" THEN "m1_call" ELSE "seq_scan_call"
    /\ UNCHANGED <<prog, n, arr, dyn_var, thread_limit, direct, int_bits, failure, alloc_n,
                   reordered, exit_code, team, temp, maxLoopVars,
                   pending, blockVars, syncs, ret, started, returned, printed>>
    /\ UNCHANGED ghostVars

\* ------------------------------------------ Method 1: parallel_max_reduction
\* int max_val = INT_MIN; #pragma omp parallel for reduction(max:max_val)
M1Start ==
    /\ pc = "m1_call"
    /\ \E tm \in TeamSizes(num_threads, dyn_var, thread_limit) :
        /\ team' = tm
        /\ partial' = Filled(tm, INT_MIN)
        /\ pending' = 0..(tm - 1)
    /\ started' = started \cup {"m1"}
    /\ syncs' = 0
    /\ pc' = "m1_region"
    /\ UNCHANGED <<cfgVars, temp, maxLoopVars, block_prefix, result, total_sum, ret,
                   returned, printed>>
    /\ reordered' = FALSE
    /\ UNCHANGED ghostVars

\* one thread runs its iterations on its private copy of max_val
M1Thread(t) ==
    /\ pc = "m1_region"
    /\ t \in pending
    /\ partial' = [partial EXCEPT
                     ![t] = ScanMax(arr, StaticLo(t, n, team), StaticHi(t, n, team), partial[t])]
    /\ pending' = pending \ {t}
    /\ UNCHANGED <<cfgVars, pc, team, temp, maxLoopVars, block_prefix, result, total_sum,
                   syncs, ret, started, returned, printed>>
    /\ reordered' = (reordered \/ \E j \in pending : j < t)
    /\ UNCHANGED ghostVars

\* end of the region: the private copies are combined into max_val; return max_val
M1Join ==
    /\ pc = "m1_region"
    /\ BarrierReached(pending)
    /\ ret' = [ret EXCEPT !.max1 = FoldMax(partial, 0, team, INT_MIN)]
    /\ returned' = returned \cup {"m1"}
    /\ syncs' = syncs + 1
    /\ pc' = "m2_call"
    /\ UNCHANGED <<envVars, team, temp, maxLoopVars, pending, blockVars, started, printed>>
    /\ UNCHANGED ghostVars

\* ------------------------------------- Method 2: parallel_max_tree_reduction
\* vector<int> temp(arr); int stride = 1;
M2Start ==
    /\ pc = "m2_call"
    /\ temp' = arr
    /\ stride' = 1
    /\ syncs' = 0
    /\ started' = started \cup {"m2"}
    /\ pc' = "m2_while"
    /\ UNCHANGED <<cfgVars, team, level, levels, pending, blockVars, ret, returned, printed>>
    /\ reordered' = FALSE
    /\ ops' = 0
    /\ UNCHANGED sym

\* while (stride < n) { parallel for ... }  return temp[0];
M2While ==
    /\ pc = "m2_while"
    /\ IF WhileCond(stride, n)
       THEN /\ \E o \in LoopOutcomes(n, Twice(stride, int_bits), int_bits) :
                /\ pending' = IF o = "runs" THEN LevelIters(n, stride) ELSE {}
                /\ pc' = LoopPc(o, "m2_for")
                /\ failure' = LoopFailure(o, failure)
            /\ UNCHANGED <<ret, returned>>
       ELSE /\ \E o \in ReadOutcomes(temp, 0, int_bits) :
                /\ failure' = o.sig
                /\ IF o.sig = "none"
                   THEN /\ ret' = [ret EXCEPT !.max2 = o.val]
                        /\ returned' = returned \cup {"m2"}
                        /\ pc' = Return("m3_call", direct)
                   ELSE /\ pc' = "crashed"
                        /\ UNCHANGED <<ret, returned>>
            /\ UNCHANGED pending
    /\ UNCHANGED <<runVars, alloc_n, reordered, team, temp, maxLoopVars, blockVars, syncs,
                   started,
                   printed>>
    /\ UNCHANGED ghostVars

\* one iteration of the parallel for
M2Iter(i) ==
    /\ pc = "m2_for"
    /\ i \in pending
    /\ temp' = TreeStep(temp, i, stride, n)
    /\ arr' = CallerVector(arr, TreeStep(temp, i, stride, n))
    /\ pending' = pending \ {i}
    /\ UNCHANGED <<prog, n, num_threads, dyn_var, thread_limit,
                   exit_code, direct, int_bits, failure,
                   alloc_n, pc, team, maxLoopVars, blockVars, syncs, ret, started,
                   returned, printed>>
    /\ reordered' = (reordered \/ \E j \in pending : j < i)
    /\ ops' = ops + TreeCombines(i, stride, n)
    /\ UNCHANGED sym

\* implicit barrier at the end of the parallel for; stride *= 2
M2Barrier ==
    /\ pc = "m2_for"
    /\ BarrierReached(pending)
    /\ stride' = NextStride(stride, int_bits)
    /\ syncs' = syncs + 1
    /\ pc' = "m2_while"
    /\ UNCHANGED <<envVars, team, temp, level, levels, pending, blockVars, ret, started,
                   returned, printed>>
    /\ UNCHANGED ghostVars

\* ------------------------------------------- Method 3: parallel_max_sections
\* num_threads = omp_get_max_threads(); partial_max(num_threads, INT_MIN); omp parallel
M3Start ==
    /\ pc = "m3_call"
    /\ \E tm \in TeamSizes(num_threads, dyn_var, thread_limit) :
        /\ team' = tm
        /\ pending' = 0..(tm - 1)
    /\ partial' = Filled(num_threads, INT_MIN)
    /\ syncs' = 0
    /\ started' = started \cup {"m3"}
    /\ pc' = "m3_region"
    /\ UNCHANGED <<cfgVars, temp, maxLoopVars, block_prefix, result, total_sum, ret,
                   returned, printed>>
    /\ reordered' = FALSE
    /\ UNCHANGED ghostVars

\* thread tid finds the maximum of its chunk into partial_max[tid]
M3Thread(tid) ==
    /\ pc = "m3_region"
    /\ tid \in pending
    /\ partial' = [partial EXCEPT
                     ![tid] = ScanMax(arr, ChunkStart(tid, n, num_threads),
                                      ChunkEnd(tid, n, num_threads), partial[tid])]
    /\ pending' = pending \ {tid}
    /\ UNCHANGED <<cfgVars, pc, team, temp, maxLoopVars, block_prefix, result, total_sum,
                   syncs, ret, started, returned, printed>>
    /\ reordered' = (reordered \/ \E j \in pending : j < tid)
    /\ UNCHANGED ghostVars

\* end of the region, then the sequential final reduction; return max_val
M3Final ==
    /\ pc = "m3_region"
    /\ BarrierReached(pending)
    /\ ret' = [ret EXCEPT !.max3 = FoldMax(partial, 0, num_threads, INT_MIN)]
    /\ returned' = returned \cup {"m3"}
    /\ syncs' = syncs + 1
    /\ pc' = "m4_call"
    /\ UNCHANGED <<envVars, team, temp, maxLoopVars, pending, blockVars, started, printed>>
    /\ UNCHANGED ghostVars

\* ---------------------------------- Method 4: parallel_max_explicit_barriers
\* vector<int> temp(arr); levels by halving; cout << "Number of synchronization steps"
M4Start ==
    /\ pc = "m4_call"
    /\ temp' = arr
    /\ levels' = ExplicitLevels(n)
    /\ level' = 0
    /\ syncs' = 0
    /\ printed' = Append(printed, Line("m4_steps", ExplicitLevels(n), 0, Empty))
    /\ started' = started \cup {"m4"}
    /\ pc' = "m4_loop"
    /\ UNCHANGED <<cfgVars, team, stride, pending, blockVars, ret, returned>>
    /\ reordered' = FALSE
    /\ ops' = 0
    /\ UNCHANGED sym

\* for (level = 0; level < levels; level++) { stride = 1 << level; ... } return temp[0];
M4Loop ==
    /\ pc = "m4_loop"
    /\ IF level < levels
       THEN /\ stride' = Shl1(level, int_bits)
            /\ \E o \in LoopOutcomes(n, Twice(Shl1(level, int_bits), int_bits),
                                    int_bits) :
                /\ pending' = IF o = "runs"
                               THEN LevelIters(n, Shl1(level, int_bits)) ELSE {}
                /\ pc' = LoopPc(o, "m4_for")
                /\ failure' = LoopFailure(o, failure)
            /\ UNCHANGED <<ret, returned>>
       ELSE /\ \E o \in ReadOutcomes(temp, 0, int_bits) :
                /\ failure' = o.sig
                /\ IF o.sig = "none"
                   THEN /\ ret' = [ret EXCEPT !.max4 = o.val]
                        /\ returned' = returned \cup {"m4"}
                        /\ pc' = Return("seq_max_call", direct)
                   ELSE /\ pc' = "crashed"
                        /\ UNCHANGED <<ret, returned>>
            /\ UNCHANGED <<stride, pending>>
    /\ UNCHANGED <<runVars, alloc_n, reordered, team, temp, level, levels, blockVars, syncs,
                   started,
                   printed>>
    /\ UNCHANGED ghostVars

\* one iteration of the parallel for
M4Iter(i) ==
    /\ pc = "m4_for"
    /\ i \in pending
    /\ temp' = TreeStep(temp, i, stride, n)
    /\ arr' = CallerVector(arr, TreeStep(temp, i, stride, n))
    /\ pending' = pending \ {i}
    /\ UNCHANGED <<prog, n, num_threads, dyn_var, thread_limit,
                   exit_code, direct, int_bits, failure,
                   alloc_n, pc, team, maxLoopVars, blockVars, syncs, ret, started,
                   returned, printed>>
    /\ reordered' = (reordered \/ \E j \in pending : j < i)
    /\ ops' = ops + TreeCombines(i, stride, n)
    /\ UNCHANGED sym

\* barrier, then cout << "After level " << level << " (stride=" << stride << "): " ...
M4Barrier ==
    /\ pc = "m4_for"
    /\ BarrierReached(pending)
    /\ printed' = Append(printed, Line("m4_after", level, stride, PrintedPrefix(temp, n)))
    /\ level' = level + 1
    /\ syncs' = syncs + 1
    /\ pc' = "m4_loop"
    /\ UNCHANGED <<envVars, team, temp, stride, levels, pending, blockVars, ret, started,
                   returned>>
    /\ UNCHANGED ghostVars

\* ------------------------------------------------ sequential_max and verify
SeqMax ==
    /\ pc = "seq_max_call"
    /\ ret' = [ret EXCEPT !.max_seq = sequential_max(arr, n)]
    /\ started' = started \cup {"seq"}
    /\ returned' = returned \cup {"seq"}
    /\ pc' = "verify_max"
    /\ UNCHANGED <<envVars, team, temp, maxLoopVars, pending, blockVars, syncs, printed>>
    /\ UNCHANGED ghostVars

\* all_correct = (max1 == max2 && max2 == max3 && max3 == max4 && max4 == max_seq)
VerifyMax ==
    /\ pc = "verify_max"
    /\ ret' = [ret EXCEPT !.all_correct =
                 /\ ret.max1 = ret.max2
                 /\ ret.max2 = ret.max3
                 /\ ret.max3 = ret.max4
                 /\ ret.max4 = ret.max_seq]
    /\ exit_code' = 0
    /\ pc' = "exit"
    /\ UNCHANGED <<prog, n, arr, num_threads, dyn_var, thread_limit,
                   direct, int_bits, failure, alloc_n,
                   reordered, team, temp, maxLoopVars, pending,
                   blockVars, syncs, started, returned, printed>>
    /\ UNCHANGED ghostVars

MaxNext ==
    \/ M1Start
    \/ \E t \in 0..(MaxW + 1) : M1Thread(t)
    \/ M1Join
    \/ M2Start
    \/ M2While
    \/ \E i \in 0..(MaxN + 8) : M2Iter(i)
    \/ M2Barrier
    \/ M3Start
    \/ \E t \in 0..(MaxW + 1) : M3Thread(t)
    \/ M3Final
    \/ M4Start
    \/ M4Loop
    \/ \E i \in 0..(MaxN + 8) : M4Iter(i)
    \/ M4Barrier
    \/ SeqMax
    \/ VerifyMax


\* ----------------------------------------------------- sequential_prefix_sum
SeqScan ==
    /\ pc = "seq_scan_call"
    /\ ret' = [ret EXCEPT !.result_seq = sequential_prefix_sum(arr, n)]
    /\ started' = started \cup {"seq"}
    /\ returned' = returned \cup {"seq"}
    /\ pc' = "bl_call"
    /\ UNCHANGED <<envVars, team, temp, maxLoopVars, pending, blockVars, syncs, printed>>
    /\ UNCHANGED ghostVars

\* ---------------------------------- Method 1: parallel_prefix_sum_blelloch
\* log_n = ceil(log2(n)); n = 1 << log_n; temp(n, 0) <- arr; header and "Initial" lines.
\* A negative n makes the constructor of temp throw std::length_error, which
\* nothing catches.
BlStart ==
    /\ pc = "bl_call"
    /\ syncs' = 0
    /\ started' = started \cup {"bl"}
    /\ alloc_n' = PaddedCap(n, int_bits)
    /\ IF PaddedCap(n, int_bits) < 0
       THEN /\ failure' = "length_error"
            /\ pc' = "crashed"
            /\ UNCHANGED <<levels, temp, level, printed, sym>>
       ELSE /\ levels' = LogNInt(n, int_bits)
            /\ temp' = PaddedBuffer(arr, n)
            /\ sym' = Words(n)
            /\ level' = 0
            /\ printed' = printed \o
                  << Line("bl_padded", PaddedCap(n, int_bits), 0, Empty),
                     Line("bl_levels", LogNInt(n, int_bits), 0, Empty),
                     Line("bl_steps", Twice(LogNInt(n, int_bits), int_bits),
                          LogNInt(n, int_bits), Empty),
                     Line("bl_initial", 0, 0,
                          PrintedPrefix(PaddedBuffer(arr, n), PaddedCap(n, int_bits))) >>
            /\ pc' = "up_loop"
            /\ UNCHANGED failure
    /\ UNCHANGED <<runVars, team, stride, pending, blockVars, ret, returned>>
    /\ reordered' = FALSE
    /\ ops' = 0

\* for (d = 0; d < log_n; d++) { stride = 1 << (d+1); offset = (1 << d) - 1; ... }
UpLoop ==
    /\ pc = "up_loop"
    /\ IF level < levels
       THEN /\ stride' = StrideOf(level)
            /\ pending' = SweepIters(PaddedN(n), level)
            /\ pc' = "up_for"
       ELSE /\ pc' = "root"
            /\ UNCHANGED <<stride, pending>>
    /\ UNCHANGED <<envVars, team, temp, level, levels, blockVars, syncs, ret, started,
                   returned, printed>>
    /\ UNCHANGED ghostVars

\* one iteration of the upsweep parallel for
UpIter(i) ==
    /\ pc = "up_for"
    /\ i \in pending
    /\ temp' = UpStep(temp, i, level)
    /\ sym' = WordUpStep(sym, i, level)
    /\ ops' = ops + 1
    /\ pending' = pending \ {i}
    /\ UNCHANGED <<cfgVars, pc, team, maxLoopVars, blockVars, syncs, ret, started,
                   returned, printed>>
    /\ reordered' = (reordered \/ \E j \in pending : j < i)

\* barrier, then cout << "Level " << d << " (stride=" << stride << "): " ...
UpBarrier ==
    /\ pc = "up_for"
    /\ BarrierReached(pending)
    /\ printed' = Append(printed,
                         Line("bl_up", level, stride, PrintedPrefix(temp, PaddedN(n))))
    /\ level' = level + 1
    /\ syncs' = syncs + 1
    /\ pc' = "up_loop"
    /\ UNCHANGED <<envVars, team, temp, stride, levels, pending, blockVars, ret, started,
                   returned>>
    /\ UNCHANGED ghostVars

\* total_sum = temp[n - 1]; temp[n - 1] = 0; cout << "Set root to 0: " ...
ClearRoot ==
    /\ pc = "root"
    /\ total_sum' = temp[RootIndex(PaddedN(n))]
    /\ temp' = [temp EXCEPT ![RootIndex(PaddedN(n))] = 0]
    /\ sym' = WordClearRoot(sym, PaddedN(n))
    /\ ops' = 0
    /\ printed' = Append(printed,
                         Line("bl_root", 0, 0,
                              PrintedPrefix([temp EXCEPT ![RootIndex(PaddedN(n))] = 0],
                                            PaddedN(n))))
    /\ level' = Dec(levels, int_bits)
    /\ pc' = "down_loop"
    /\ UNCHANGED <<envVars, team, stride, levels, pending, partial, block_prefix, result,
                   syncs, ret, started, returned>>

\* for (d = log_n - 1; d >= 0; d--) { stride = 1 << (d+1); offset = (1 << d) - 1; ... }
\* With d + 1 no shift count of an int, offset is the greatest int and the
\* first iteration indexes temp there.
DownLoop ==
    /\ pc = "down_loop"
    /\ IF level >= int_bits - 1
       THEN /\ \E o \in WildAccess :
                /\ failure' = o
                /\ pc' = IF o = "segfault" THEN "crashed" ELSE "undefined"
            /\ UNCHANGED <<stride, pending>>
       ELSE IF level >= 0
       THEN /\ stride' = StrideOf(level)
            /\ pending' = SweepIters(PaddedN(n), level)
            /\ pc' = "down_for"
            /\ UNCHANGED failure
       ELSE /\ pc' = "bl_finish"
            /\ UNCHANGED <<stride, pending, failure>>
    /\ UNCHANGED <<runVars, alloc_n, reordered, team, temp, level, levels, blockVars, syncs,
                   ret,
                   started, returned, printed>>
    /\ UNCHANGED ghostVars

\* one iteration of the downsweep parallel for
DownIter(i) ==
    /\ pc = "down_for"
    /\ i \in pending
    /\ temp' = DownStep(temp, i, level)
    /\ sym' = WordDownStep(sym, i, level)
    /\ ops' = ops + 1
    /\ pending' = pending \ {i}
    /\ UNCHANGED <<cfgVars, pc, team, maxLoopVars, blockVars, syncs, ret, started,
                   returned, printed>>
    /\ reordered' = (reordered \/ \E j \in pending : j < i)

\* barrier, then cout << "Level " << (log_n - 1 - d) << " (stride=" << stride << "): " ...
DownBarrier ==
    /\ pc = "down_for"
    /\ BarrierReached(pending)
    /\ printed' = Append(printed,
                         Line("bl_down", levels - 1 - level, stride,
                              PrintedPrefix(temp, PaddedN(n))))
    /\ level' = level - 1
    /\ syncs' = syncs + 1
    /\ pc' = "down_loop"
    /\ UNCHANGED <<envVars, team, temp, stride, levels, pending, blockVars, ret, started,
                   returned>>
    /\ UNCHANGED ghostVars

\* "Result (Exclusive)" line; result[i] = temp[i] + arr[i]; return result
BlFinish ==
    /\ pc = "bl_finish"
    /\ printed' = Append(printed,
                         Line("bl_exclusive", 0, 0, PrintedPrefix(temp, PaddedN(n))))
    /\ ret' = [ret EXCEPT !.result1 = Inclusive(temp, arr, n)]
    /\ sym' = WordInclusive(sym, n)
    /\ UNCHANGED ops
    /\ returned' = returned \cup {"bl"}
    /\ pc' = Return("verify1", direct)
    /\ UNCHANGED <<envVars, team, temp, maxLoopVars, pending, blockVars, syncs, started>>

\* the "Mismatch at index" line verify_arrays writes, if any
MismatchLines(a, b) ==
    [k \in 1..Len(VerifyRun(a, b).reported) |->
        Line("mismatch", VerifyRun(a, b).reported[k], 0, Empty)]

\* where main goes on after a verification, whatever it said
AfterVerifyStop(ok, next) == IF ok THEN next ELSE "exit"
AfterVerify(ok, next) == next

\* the line "Verification: PASSED/FAILED" of a method
VerificationLine(method, ok) == Line("verification", method, IF ok THEN 1 ELSE 0, Empty)

\* what the caller of verify_arrays writes with the value returned: main the
\* line "Verification:", a call of the function by itself nothing
CallerLines(method, ok, d) == IF d THEN << >> ELSE << VerificationLine(method, ok) >>

\* where a call of verify_arrays on result1 and result_seq starts: in main at
\* the statement that prints its value, by itself at the entry of the function
VerifyEntry(d) == IF d THEN "verify_call" ELSE "verify1"

\* verify_arrays(result1, result_seq), which writes the mismatch line, if any,
\* and returns; in main: cout << "Verification: " << (verify_arrays(..) ? ...)
Verify1 ==
    /\ pc = VerifyEntry(direct)
    /\ ret' = [ret EXCEPT !.verify1 = verify_arrays(ret.result1, ret.result_seq)]
    /\ printed' = printed \o MismatchLines(ret.result1, ret.result_seq)
          \o CallerLines(1, verify_arrays(ret.result1, ret.result_seq), direct)
    /\ pc' = Return(AfterVerify(verify_arrays(ret.result1, ret.result_seq), "rec_call"),
                    direct)
    /\ UNCHANGED <<envVars, team, temp, maxLoopVars, pending, blockVars, syncs, started,
                   returned>>
    /\ UNCHANGED ghostVars

\* ---------------------------------- Method 3: parallel_prefix_sum_recursive
\* result(n); if (n == 0) return result; block_sums(num_threads, 0); omp parallel
RecStart ==
    /\ pc = "rec_call"
    /\ result' = Filled(n, 0)
    /\ syncs' = 0
    /\ started' = started \cup {"rec"}
    /\ IF n = 0
       THEN /\ ret' = [ret EXCEPT !.result3 = Filled(n, 0)]
            /\ returned' = returned \cup {"rec"}
            /\ pc' = "verify3"
            /\ UNCHANGED <<team, pending, partial>>
       ELSE /\ \E tm \in TeamSizes(num_threads, dyn_var, thread_limit) :
                /\ team' = tm
                /\ pending' = 0..(tm - 1)
            /\ partial' = Filled(num_threads, 0)
            /\ pc' = "p1_region"
            /\ UNCHANGED <<ret, returned>>
    /\ UNCHANGED <<cfgVars, temp, maxLoopVars, block_prefix, total_sum, printed>>
    /\ reordered' = FALSE
    /\ UNCHANGED ghostVars

\* phase 1, thread tid: running sum of its block into result, block total into block_sums
P1Thread(tid) ==
    /\ pc = "p1_region"
    /\ tid \in pending
    /\ LET lo == ChunkStart(tid, n, num_threads)
           hi == ChunkEnd(tid, n, num_threads)
       IN  IF lo < hi
           THEN /\ result' = BlockLocal(result, arr, lo, hi)
                /\ partial' = [partial EXCEPT ![tid] = RunningSum(arr, lo, hi - 1)]
           ELSE UNCHANGED <<result, partial>>
    /\ pending' = pending \ {tid}
    /\ UNCHANGED <<cfgVars, pc, team, temp, maxLoopVars, block_prefix, total_sum, syncs,
                   ret, started, returned, printed>>
    /\ reordered' = (reordered \/ \E j \in pending : j < tid)
    /\ UNCHANGED ghostVars

\* end of region 1; phase 2 (sequential): block_prefix; start of region 3
Phase2 ==
    /\ pc = "p1_region"
    /\ BarrierReached(pending)
    /\ block_prefix' = BlockPrefix(partial, num_threads)
    /\ \E tm \in TeamSizes(num_threads, dyn_var, thread_limit) :
        /\ team' = tm
        /\ pending' = 0..(tm - 1)
    /\ syncs' = syncs + 1
    /\ pc' = "p3_region"
    /\ UNCHANGED <<envVars, temp, maxLoopVars, partial, result, total_sum, ret, started,
                   returned, printed>>
    /\ UNCHANGED ghostVars

\* phase 3, thread tid: result[i] += block_prefix[tid] over its block
P3Thread(tid) ==
    /\ pc = "p3_region"
    /\ tid \in pending
    /\ result' = BlockAdd(result, ChunkStart(tid, n, num_threads),
                          ChunkEnd(tid, n, num_threads), block_prefix[tid])
    /\ pending' = pending \ {tid}
    /\ UNCHANGED <<cfgVars, pc, team, temp, maxLoopVars, partial, block_prefix, total_sum,
                   syncs, ret, started, returned, printed>>
    /\ reordered' = (reordered \/ \E j \in pending : j < tid)
    /\ UNCHANGED ghostVars

\* end of region 3; return result
RecReturn ==
    /\ pc = "p3_region"
    /\ BarrierReached(pending)
    /\ ret' = [ret EXCEPT !.result3 = result]
    /\ returned' = returned \cup {"rec"}
    /\ syncs' = syncs + 1
    /\ pc' = "verify3"
    /\ UNCHANGED <<envVars, team, temp, maxLoopVars, pending, blockVars, started, printed>>
    /\ UNCHANGED ghostVars

\* cout << "Verification: " << (verify_arrays(result3, result_seq) ? ...)
Verify3 ==
    /\ pc = "verify3"
    /\ ret' = [ret EXCEPT !.verify3 = verify_arrays(ret.result3, ret.result_seq)]
    /\ printed' = printed \o MismatchLines(ret.result3, ret.result_seq)
          \o << VerificationLine(3, verify_arrays(ret.result3, ret.result_seq)) >>
    /\ pc' = AfterVerify(verify_arrays(ret.result3, ret.result_seq), "summary")
    /\ UNCHANGED <<envVars, team, temp, maxLoopVars, pending, blockVars, syncs, started,
                   returned>>
    /\ UNCHANGED ghostVars

\* "Todos los metodos": verify_arrays(result1, ..) && verify_arrays(result3, ..); return 0
Summary ==
    /\ pc = "summary"
    /\ ret' = [ret EXCEPT !.all_methods =
                 /\ verify_arrays(ret.result1, ret.result_seq)
                 /\ verify_arrays(ret.result3, ret.result_seq)]
    /\ printed' = printed
          \o MismatchLines(ret.result1, ret.result_seq)
          \o (IF verify_arrays(ret.result1, ret.result_seq)
              THEN MismatchLines(ret.result3, ret.result_seq) ELSE << >>)
          \o << Line("summary", n, num_threads, Empty) >>
    /\ exit_code' = 0
    /\ pc' = "exit"
    /\ UNCHANGED <<prog, n, arr, num_threads, dyn_var, thread_limit,
                   direct, int_bits, failure, alloc_n,
                   reordered, team, temp, maxLoopVars, pending,
                   blockVars, syncs, started, returned>>
    /\ UNCHANGED ghostVars

ScanNext ==
    \/ SeqScan
    \/ BlStart
    \/ UpLoop
    \/ \E i \in 0..(MaxN + 8) : UpIter(i)
    \/ UpBarrier
    \/ ClearRoot
    \/ DownLoop
    \/ \E i \in 0..(MaxN + 8) : DownIter(i)
    \/ DownBarrier
    \/ BlFinish
    \/ Verify1
    \/ RecStart
    \/ \E t \in 0..(MaxW + 1) : P1Thread(t)
    \/ Phase2
    \/ \E t \in 0..(MaxW + 1) : P3Thread(t)
    \/ RecReturn
    \/ Verify3
    \/ Summary

Next ==
    \/ ReadSize
    \/ Generate
    \/ SetThreads
    \/ MaxNext
    \/ ScanNext

Spec == Init /\ [][Next]_vars

\* the runs of main with any team the runtime may give; every started program
\* keeps being scheduled until it exits
SpecTeam == InitTeam /\ [][Next]_vars
FairSpecTeam == SpecTeam /\ WF_vars(Next)
FairSpec == Spec /\ WF_vars(Next)

\* the runs of main and the runs of an engine or of verify_arrays called by itself
SpecDirect == InitDirect /\ [][Next]_vars


\* =================================================================== claims
\* the greatest element of a non-empty array
Greatest(a) == CHOOSE v \in {a[i] : i \in DOMAIN a} : \A i \in DOMAIN a : a[i] <= v

\* main has run to its final return 0
Finished == pc = "exit" /\ exit_code = 0

\* C1: on every non-empty input and under every order of the iterations of a
\* level and of the threads of a region, each of the four parallel maximum
\* strategies returns what sequential_max returns, the greatest element, and
\* the verification of main reports PASSED.
C1_MaxStrategiesAgree ==
    prog = "max" =>
        /\ \A e \in returned \cap {"m1", "m2", "m3", "m4"} :
              LET v == CASE e = "m1" -> ret.max1
                         [] e = "m2" -> ret.max2
                         [] e = "m3" -> ret.max3
                         [] e = "m4" -> ret.max4
              IN  v = sequential_max(arr, n) /\ v = Greatest(arr)
        /\ "seq" \in returned => ret.max_seq = Greatest(arr)
        /\ Finished => ret.all_correct


\* C2: for every N >= 1 the Blelloch scan returns exactly N elements with
\* R[0] = S[0] and R[i] = R[i-1] + S[i], the sequential prefix sum, and the
\* verification of result1 against result_seq is true.
C2_BlellochEqualsSequential ==
    (prog = "scan" /\ "bl" \in returned) =>
        /\ DOMAIN ret.result1 = 0..(n - 1)
        /\ ret.result1[0] = arr[0]
        /\ \A i \in 1..(n - 1) : ret.result1[i] = ret.result1[i - 1] + arr[i]
        /\ ret.result1 = ret.result_seq
        /\ pc \notin {"verify1"} => ret.verify1

\* the Blelloch scan has returned and been verified on 3 elements (padded to 4)
C2_Witness ==
    /\ prog = "scan"
    /\ pc = "rec_call"
    /\ n = 3
    /\ DOMAIN temp = 0..3
    /\ ret.verify1
    /\ ret.result1[2] > ret.result1[1]

\* C3: for every N >= 1 and every worker count W >= 1, also W > N and N not a
\* multiple of W, the block scan returns the sequential inclusive prefix sum.
C3_BlockScanEqualsSequential ==
    (prog = "scan" /\ "rec" \in returned) =>
        /\ DOMAIN ret.result3 = 0..(n - 1)
        /\ ret.result3[0] = arr[0]
        /\ \A i \in 1..(n - 1) : ret.result3[i] = ret.result3[i - 1] + arr[i]
        /\ ret.result3 = ret.result_seq
        /\ pc \notin {"verify3"} => ret.verify3

\* the lines printed so far, and those with a given tag, in order
Lines == {printed[k] : k \in 1..Len(printed)}
Tagged(tag) == SelectSeq(printed, LAMBDA l : l.tag = tag)
Buffers(q) == [k \in 1..Len(q) |-> q[k].buf]
IsPrefix(q, r) == Len(q) <= Len(r) /\ \A k \in 1..Len(q) : q[k] = r[k]

\* C4: determinism. Whatever the worker count and whatever the order in which
\* the iterations of a level or the threads of a phase ran, an engine returns
\* what the same engine returns when a single thread runs it in index order.
C4_OutputIndependentOfSchedule ==
    /\ (prog = "max" /\ "m2" \in returned) => ret.max2 = TreeRunAsc(arr, 1, n)
    /\ (prog = "max" /\ "m4" \in returned) => ret.max4 = TreeRunAsc(arr, 1, n)
    /\ (prog = "max" /\ "m3" \in returned) => ret.max3 = SectionsAsc(arr, n, 1)
    /\ (prog = "scan" /\ "bl" \in returned) => ret.result1 = BlellochAsc(arr, n)
    /\ (prog = "scan" /\ "rec" \in returned) => ret.result3 = RecursiveAsc(arr, n, 1)


\* ceil(log2(len)) for len >= 1
CeilLog2(len) == CHOOSE k \in 0..31 : Pow2(k) >= len /\ (k = 0 \/ Pow2(k - 1) < len)

\* C5: tree reduction runs and reports ceil(log2(N)) levels; the Blelloch scan
\* runs ceil(log2(N)) upsweep and as many downsweep levels, reports
\* 2*ceil(log2(N)) steps and pads to 2^ceil(log2(N)); N = 1000 gives 10
\* reduction levels, 20 scan levels and capacity 1024.
C5_LevelCounts ==
    /\ (prog = "max" /\ pc = "m3_call") => syncs = CeilLog2(n)
    /\ (prog = "max" /\ pc = "seq_max_call") =>
          /\ syncs = CeilLog2(n)
          /\ levels = CeilLog2(n)
          /\ Line("m4_steps", CeilLog2(n), 0, Empty) \in Lines
          /\ TreeLevels(1, 1000) = 10
          /\ ExplicitLevels(1000) = 10
    /\ (prog = "scan" /\ pc = "root") => syncs = CeilLog2(n)
    /\ (prog = "scan" /\ pc = "verify1") =>
          /\ syncs = 2 * CeilLog2(n)
          /\ DOMAIN temp = 0..(Pow2(CeilLog2(n)) - 1)
          /\ Line("bl_padded", Pow2(CeilLog2(n)), 0, Empty) \in Lines
          /\ Line("bl_steps", 2 * CeilLog2(n), CeilLog2(n), Empty) \in Lines
          /\ LogN(1000) = 10
          /\ PaddedN(1000) = 1024

\* the Blelloch scan has returned on 3 elements after 2 + 2 levels
C5_Witness ==
    /\ prog = "scan"
    /\ pc = "verify1"
    /\ n = 3
    /\ syncs = 4
    /\ levels = 2

\* C6: with N = 1 every reduction returns the sole element and the tree
\* reductions run no level; both scans return the one-element sequence holding
\* that element, the Blelloch scan with capacity 1 and no sweep level.
C6_SingleElement ==
    (n = 1 /\ pc \notin {"read", "generate"}) =>
        /\ pc \notin {"m2_for", "m4_for", "up_for", "down_for"}
        /\ prog = "max" =>
              /\ "m1" \in returned => ret.max1 = arr[0]
              /\ "m2" \in returned => ret.max2 = arr[0]
              /\ "m3" \in returned => ret.max3 = arr[0]
              /\ "m4" \in returned => ret.max4 = arr[0]
              /\ pc \in {"m3_call", "seq_max_call"} => syncs = 0
              /\ "m4" \in started => levels = 0 /\ Len(Tagged("m4_after")) = 0
        /\ prog = "scan" =>
              /\ "bl" \in started =>
                    /\ DOMAIN temp = {0}
                    /\ levels = 0
                    /\ Len(Tagged("bl_up")) = 0
                    /\ Len(Tagged("bl_down")) = 0
              /\ pc = "verify1" => syncs = 0
              /\ "bl" \in returned => ret.result1 = [i \in {0} |-> arr[0]]
              /\ "rec" \in returned => ret.result3 = [i \in {0} |-> arr[0]]

\* the scan program has finished on a single element with 4 workers
C6_Witness ==
    /\ prog = "scan"
    /\ Finished
    /\ n = 1
    /\ num_threads = MainNumThreads
    /\ ret.result1 = ret.result3

A_Level0 == [i \in 0..7 |-> <<789, 789, 890, 890, 567, 567, 678, 678>>[i + 1]]
A_Level1 == [i \in 0..7 |-> <<890, 789, 890, 890, 678, 567, 678, 678>>[i + 1]]

\* C7: scenario A. On [456,789,123,890,234,567,345,678] Method 4 reports 3
\* synchronization levels, returns 890, and the buffer after level 0 is
\* [789,789,890,890,567,567,678,678].
C7_ScenarioA ==
    (prog = "max" /\ arr = ScenarioA) =>
        /\ "m4" \in started =>
              /\ levels = 3
              /\ Line("m4_steps", 3, 0, Empty) \in Lines
        /\ (pc = "m4_for" /\ level = 0 /\ pending = {}) => temp = A_Level0
        /\ \A l \in Lines : (l.tag = "m4_after" /\ l.a = 0) => l.buf = A_Level0
        /\ "m4" \in returned =>
              /\ ret.max4 = 890
              /\ Len(Tagged("m4_after")) = 3

\* Method 4 has returned on the input of scenario A
C7_Witness ==
    /\ prog = "max"
    /\ arr = ScenarioA
    /\ "m4" \in returned
    /\ ret.max4 = 890

\* C8 as documented: the lines "After level 0, 1, 2" of Method 4 on scenario A
\* show the input, then [789,789,890,890,567,567,678,678], then
\* [890,789,890,890,678,567,678,678].
C8_DocumentedTrace ==
    (prog = "max" /\ arr = ScenarioA) =>
        IsPrefix(Tagged("m4_after"),
                 << Line("m4_after", 0, 1, ScenarioA),
                    Line("m4_after", 1, 2, A_Level0),
                    Line("m4_after", 2, 4, A_Level1) >>)

\* C8 amended: each line shows the buffer after its level has run: after level
\* 0 (stride=1) [789,789,890,890,567,567,678,678], after level 1 (stride=2)
\* and again after level 2 (stride=4) [890,789,890,890,678,567,678,678].
C8_PrintedTrace ==
    (prog = "max" /\ arr = ScenarioA) =>
        /\ IsPrefix(Tagged("m4_after"),
                    << Line("m4_after", 0, 1, A_Level0),
                       Line("m4_after", 1, 2, A_Level1),
                       Line("m4_after", 2, 4, A_Level1) >>)
        /\ "m4" \in returned => Len(Tagged("m4_after")) = 3

\* Method 4 has printed its three lines on scenario A and the program finished
C8_Witness ==
    /\ prog = "max"
    /\ arr = ScenarioA
    /\ Finished
    /\ Len(Tagged("m4_after")) = 3

B_States ==
    << [i \in 0..7 |-> <<12, 46, 21, 66, 23, 41, 36, 65>>[i + 1]],
       [i \in 0..7 |-> <<12, 46, 21, 112, 23, 41, 36, 106>>[i + 1]],
       [i \in 0..7 |-> <<12, 46, 21, 112, 23, 41, 36, 218>>[i + 1]],
       [i \in 0..7 |-> <<12, 46, 21, 112, 23, 41, 36, 0>>[i + 1]],
       [i \in 0..7 |-> <<12, 46, 21, 0, 23, 41, 36, 112>>[i + 1]],
       [i \in 0..7 |-> <<12, 0, 21, 46, 23, 112, 36, 153>>[i + 1]],
       [i \in 0..7 |-> <<0, 12, 46, 67, 112, 135, 153, 189>>[i + 1]] >>
B_Result == [i \in 0..7 |-> <<12, 46, 67, 112, 135, 153, 189, 218>>[i + 1]]

\* the buffers the Blelloch scan has shown after each level and after clearing the root
SweepStates ==
    Buffers(SelectSeq(printed, LAMBDA l : l.tag \in {"bl_up", "bl_root", "bl_down"}))

\* C9: scenario B. On [12,34,21,45,23,18,36,29] the Blelloch scan goes through
\* the seven listed buffers (three upsweep levels, root cleared, three
\* downsweep levels), captures total 218, uses 6 levels and returns
\* [12,46,67,112,135,153,189,218].
C9_ScenarioB ==
    (prog = "scan" /\ arr = ScenarioB) =>
        /\ IsPrefix(SweepStates, B_States)
        /\ (pc \in {"up_for", "down_for"} /\ pending = {}) =>
              temp = B_States[Len(SweepStates) + 1]
        /\ pc = "down_loop" => total_sum = 218
        /\ "bl" \in returned =>
              /\ SweepStates = B_States
              /\ total_sum = 218
              /\ Line("bl_steps", 6, 3, Empty) \in Lines
              /\ ret.result1 = B_Result
        /\ pc = "verify1" => syncs = 6

\* the Blelloch scan has returned on the input of scenario B
C9_Witness ==
    /\ prog = "scan"
    /\ arr = ScenarioB
    /\ "bl" \in returned
    /\ total_sum = 218
    /\ Len(SweepStates) = 7

\* C10: when the size read is <= 0 the program prints the size error and
\* returns 1 with no engine called, no parallel region or level started and
\* no buffer built.
C10_InvalidSizeStopsRun ==
    (pc # "read" /\ n <= 0) =>
        /\ pc = "exit"
        /\ exit_code = 1
        /\ started = {}
        /\ returned = {}
        /\ pending = {}
        /\ syncs = 0
        /\ temp = Empty /\ arr = Empty /\ result = Empty /\ partial = Empty
        /\ printed = << Line("size_error", n, 0, Empty) >>

\* the program has stopped on the size 0
C10_Witness ==
    /\ pc = "exit"
    /\ n = 0
    /\ exit_code = 1
    /\ Len(printed) = 1

\* a run of an engine called by itself has ended: returned, crashed, or gone on
\* in an undetermined state
Ended == pc \in {"done", "crashed", "undefined"}

\* C11: the tree reduction and the Blelloch scan enforce N >= 1 themselves:
\* called on an empty sequence they end with the failure InvalidSize, without
\* returning a value, without reading or writing a buffer element and without
\* computing a padded capacity.
C11_EnginesRejectEmpty ==
    (direct /\ n = 0 /\ started \cap {"m2", "m4", "bl"} # {}) =>
        /\ Ended => failure = "InvalidSize"
        /\ returned = {}
        /\ temp = Empty
        /\ alloc_n = 0
        /\ \A l \in Lines : l.tag \notin {"bl_padded", "bl_initial", "bl_root"}

\* C12: when 1 << log_n does not fit the int (2^(w-2) < N <= 2^(w-1) - 1), the
\* Blelloch scan ends with the failure Overflow before it creates the padded
\* buffer: the constructor of the buffer is never called with the wrapped
\* capacity, and no buffer is created or indexed.
C12_OverflowReported ==
    (direct /\ "bl" \in started /\ n > Pow2(int_bits - 2) /\ n <= MaxInt(int_bits)) =>
        /\ failure = "Overflow"
        /\ alloc_n >= 0
        /\ temp = Empty
        /\ printed = << >>

\* a and b have the same length and the same element at every index
SameArrays(a, b) == DOMAIN a = DOMAIN b /\ \A i \in DOMAIN a : a[i] = b[i]

\* the indices at which two arrays of one length differ
Mismatches(a, b) == {i \in DOMAIN a : a[i] # b[i]}

\* verify_arrays has been called on result1 and result_seq and has returned: by
\* itself, or in main, which has then printed the line "Verification:"
VerifyReturned ==
    \/ direct /\ pc = "done" /\ started = {}
    \/ ~direct /\ Len(Tagged("verification")) >= 1

\* C13: verify_arrays(a, b) is true exactly when a and b have the same length
\* and are equal at every index; otherwise it is false and the run goes on
\* without a failure. With equal lengths the index it reports is the smallest
\* one at which a and b differ and it examines no index after that one; with
\* different lengths, or equal arrays, it reports no index. The function
\* itself writes nothing else; main prints its value as PASSED or FAILED.
C13_VerifyArrays ==
    (prog = "scan" /\ VerifyReturned) =>
        LET a == ret.result1
            b == ret.result_seq
        IN  /\ ret.verify1 = SameArrays(a, b)
            /\ failure = "none"
            /\ pc \notin {"crashed", "undefined"}
            /\ pc \in {"done", "rec_call"} =>
                  /\ IF direct
                     THEN printed = Tagged("mismatch")
                     ELSE printed[Len(printed)] = VerificationLine(1, SameArrays(a, b))
                  /\ IF Size(a) = Size(b) /\ Mismatches(a, b) # {}
                     THEN /\ Tagged("mismatch")
                                = << Line("mismatch", LeastOf(Mismatches(a, b)), 0, Empty) >>
                          /\ VerifyRun(a, b).examined = LeastOf(Mismatches(a, b)) + 1
                     ELSE /\ Tagged("mismatch") = << >>
                          /\ VerifyRun(a, b).examined = IF Size(a) = Size(b) THEN Size(a) ELSE 0

\* verify_arrays, called on two arrays of length 2 that agree at index 0 and
\* differ at index 1, has returned false and reported index 1
C13_Witness ==
    /\ direct
    /\ pc = "done"
    /\ started = {}
    /\ Len(printed) = 1
    /\ ~ret.verify1
    /\ Size(ret.result1) = 2
    /\ Size(ret.result_seq) = 2
    /\ ret.result1[0] = ret.result_seq[0]
    /\ Tagged("mismatch") = << Line("mismatch", 1, 0, Empty) >>

\* C14: a mismatch never stops the comparison run. In every run of the scan
\* program with N >= 1, whatever the two verifications say, the run is never
\* stuck before the exit of main and has no failure, and at the exit the block
\* scan has been called and has returned, both verifications have been reported
\* and the summary has been printed, with return value 0.
C14_MismatchNeverStops ==
    (prog = "scan" /\ ~direct /\ n >= 1 /\ pc # "read") =>
        /\ failure = "none"
        /\ pc # "exit" => ENABLED Next
        /\ pc \in {"rec_call", "verify3", "summary", "exit"} =>
              Tagged("verification")[1] = VerificationLine(1, ret.verify1)
        /\ pc \in {"summary", "exit"} =>
              /\ "rec" \in returned
              /\ Tagged("verification")[2] = VerificationLine(3, ret.verify3)
        /\ pc = "exit" =>
              /\ exit_code = 0
              /\ Len(Tagged("verification")) = 2
              /\ Len(Tagged("summary")) = 1
              /\ printed[Len(printed)] = Line("summary", n, num_threads, Empty)

\* C14 as a property of whole runs: under fair scheduling, from the
\* verification of the Blelloch result the run always reaches the exit of main
\* with the block scan returned and the summary printed.
C14_SummaryReached ==
    (prog = "scan" /\ ~direct /\ pc = "verify1")
        ~> (pc = "exit" /\ "rec" \in returned /\ Len(Tagged("summary")) = 1)

\* the scan program has finished and printed its summary after the block scan,
\* run by a team smaller than requested, failed its verification
C14_Witness ==
    /\ prog = "scan"
    /\ Finished
    /\ ret.verify1
    /\ ~ret.verify3
    /\ ~ret.all_methods
    /\ Len(Tagged("mismatch")) >= 1
    /\ Len(Tagged("summary")) = 1

\* no iteration of S writes an element another iteration of S reads or writes
RaceFree(S, R(_), W(_)) ==
    \A i \in S, j \in S : i # j => W(i) \cap (R(j) \cup W(j)) = {}

\* the buffers before and after differ at most at the indices of K
ChangesOnly(before, after, K) ==
    /\ DOMAIN after = DOMAIN before
    /\ \A k \in DOMAIN before : k \notin K => after[k] = before[k]

\* C15: within one level of the tree reduction, of the upsweep and of the
\* downsweep, for two distinct iterations i and j the elements iteration i
\* writes are none of the elements iteration j reads or writes; an iteration
\* changes the buffer at the elements it writes only, so two iterations of a
\* level give the same buffer in either order.
C15_LevelsRaceFree ==
    /\ pc \in {"m2_for", "m4_for"} =>
          /\ pending \subseteq LevelIters(n, stride)
          /\ RaceFree(LevelIters(n, stride),
                      LAMBDA i : TreeReads(i, stride, n),
                      LAMBDA i : TreeWrites(i, stride, n))
          /\ \A i \in pending :
                /\ ChangesOnly(temp, TreeStep(temp, i, stride, n), TreeWrites(i, stride, n))
                /\ \A j \in pending :
                      TreeStep(TreeStep(temp, i, stride, n), j, stride, n)
                          = TreeStep(TreeStep(temp, j, stride, n), i, stride, n)
    /\ pc = "up_for" =>
          /\ pending \subseteq SweepIters(PaddedN(n), level)
          /\ RaceFree(SweepIters(PaddedN(n), level),
                      LAMBDA i : UpReads(i, level), LAMBDA i : UpWrites(i, level))
          /\ \A i \in pending :
                /\ ChangesOnly(temp, UpStep(temp, i, level), UpWrites(i, level))
                /\ \A j \in pending \ {i} :
                      UpStep(UpStep(temp, i, level), j, level)
                          = UpStep(UpStep(temp, j, level), i, level)
    /\ pc = "down_for" =>
          /\ pending \subseteq SweepIters(PaddedN(n), level)
          /\ RaceFree(SweepIters(PaddedN(n), level),
                      LAMBDA i : DownReads(i, level), LAMBDA i : DownWrites(i, level))
          /\ \A i \in pending :
                /\ ChangesOnly(temp, DownStep(temp, i, level), DownWrites(i, level))
                /\ \A j \in pending \ {i} :
                      DownStep(DownStep(temp, i, level), j, level)
                          = DownStep(DownStep(temp, j, level), i, level)

\* level 0 of the downsweep on a padded buffer of 4: the second of its two
\* iterations has run before the first
C15_Witness ==
    /\ pc = "down_for"
    /\ DOMAIN temp = 0..3
    /\ level = 0
    /\ pending = {0}
    /\ reordered

\* the program is inside a level of a tree reduction or of a sweep; inside any
\* parallel for or parallel region
LevelPcs == {"m2_for", "m4_for", "up_for", "down_for"}
RegionPcs == LevelPcs \cup {"m1_region", "m3_region", "p1_region", "p3_region"}

\* C16: barrier ordering. A level or a phase is left, and the stride or the
\* level advanced, only when every one of its iterations or workers has run;
\* inside a level the buffer is touched only by a pending iteration of that
\* level. In the block scan block_prefix is written only after every phase-1
\* worker has finished, from the block sums they left, and the phase-3 workers
\* start only with all num_threads entries of block_prefix written.
C16_BarrierOrdering ==
    [][ /\ (pc \in RegionPcs /\ pc' # pc) => pending = {}
        /\ (stride' # stride \/ level' # level) => pc \notin LevelPcs \/ pending = {}
        /\ (pc \in LevelPcs /\ temp' # temp) =>
              /\ pc' = pc
              /\ stride' = stride /\ level' = level
              /\ \E i \in pending : pending' = pending \ {i}
        /\ block_prefix' # block_prefix =>
              /\ pc = "p1_region" /\ pending = {}
              /\ block_prefix' = BlockPrefix(partial, num_threads)
        /\ (pc = "p3_region" /\ result' # result) =>
              /\ DOMAIN block_prefix = 0..(num_threads - 1)
              /\ block_prefix = BlockPrefix(partial, num_threads)
              /\ block_prefix' = block_prefix
      ]_vars

\* the block scan on 4 elements with 3 workers is in phase 3 after one barrier,
\* a worker of phase 3 has run, and the block prefixes are written
C16_Witness ==
    /\ pc = "p3_region"
    /\ n = 4
    /\ num_threads = 3
    /\ syncs = 1
    /\ Cardinality(pending) = 2
    /\ DOMAIN block_prefix = 0..2
    /\ block_prefix[2] = partial[0] + partial[1]

\* C17: block partition. For N >= 1 and W >= 1 workers, with chunk the least
\* integer >= N/W, the ranges [tid*chunk, min(tid*chunk + chunk, N)) of
\* tid = 0..W-1 are pairwise disjoint, follow one another in tid order (the
\* non-empty ones first, each ending where the next starts) and cover exactly
\* 0..N-1; a range starting at N or later is empty, and its worker leaves every
\* element of result and its own block sum untouched. A worker of the team
\* that has run wrote the elements of its own range and no other.
C17_BlockPartition ==
    (~direct /\ n >= 1 /\ pc \in {"m3_region", "p1_region", "p3_region"}) =>
        LET W == num_threads
            R(t) == BlockRange(t, n, W)
            Ran == (0..(team - 1)) \ pending
        IN  /\ ChunkSize(n, W) * W >= n
            /\ (ChunkSize(n, W) - 1) * W < n
            /\ \A t \in 0..(W - 1), u \in 0..(W - 1) : t # u => R(t) \cap R(u) = {}
            /\ UNION {R(t) : t \in 0..(W - 1)} = 0..(n - 1)
            /\ \A t \in 0..(W - 2) :
                  R(t + 1) # {} => R(t) # {} /\ ChunkEnd(t, n, W) = ChunkStart(t + 1, n, W)
            /\ \A t \in 0..(W - 1) : ChunkStart(t, n, W) >= n => R(t) = {}
            /\ pc = "p1_region" =>
                  \A t \in 0..(W - 1) :
                      IF t \notin Ran \/ R(t) = {}
                      THEN partial[t] = 0 /\ \A i \in R(t) : result[i] = 0
                      ELSE /\ partial[t] = RunningSum(arr, ChunkStart(t, n, W),
                                                      ChunkEnd(t, n, W) - 1)
                           /\ \A i \in R(t) :
                                 result[i] = RunningSum(arr, ChunkStart(t, n, W), i)
            /\ pc = "p3_region" =>
                  \A t \in 0..(W - 1) : \A i \in R(t) :
                      result[i] = (IF t < team
                                   THEN RunningSum(arr, ChunkStart(t, n, W), i)
                                   ELSE 0)
                                    + (IF t \in Ran THEN block_prefix[t] ELSE 0)

\* phase 1 of the block scan on 2 elements with 4 workers has ended: the
\* workers 2 and 3, whose ranges start at 2 and 3, have run and left their
\* block sums 0
C17_Witness ==
    /\ pc = "p1_region"
    /\ n = 2
    /\ num_threads = 4
    /\ team = 4
    /\ pending = {}
    /\ ChunkStart(3, n, num_threads) > n
    /\ partial[2] = 0 /\ partial[3] = 0
    /\ result[1] = arr[1]

\* the sum of the elements lo..hi of the padded input
PaddedSum(lo, hi) == RunningSum(PaddedBuffer(arr, n), lo, hi)

\* the buffer shown by the last line printed before the running upsweep level:
\* "Initial", or the line of the level before
BeforeLevel ==
    LET shown == SelectSeq(printed, LAMBDA l : l.tag \in {"bl_initial", "bl_up"})
    IN  shown[Len(shown)].buf

\* C18: upsweep invariant. When level d of the upsweep has completed, for every
\* i in 0..P-1 that is a multiple of 2^(d+1) the element i + 2^(d+1) - 1 holds
\* the sum of the 2^(d+1) elements of the padded input from i on, and every
\* other element holds what it held before level d. Inside the level the same
\* holds of the iterations that have run, the others still hold the old value.
C18_UpsweepInvariant ==
    (pc = "up_for" /\ n >= 1) =>
        LET P == PaddedN(n)
            w == Pow2(level + 1)
        IN  /\ DOMAIN temp = 0..(P - 1)
            /\ \A k \in 0..(P - 1) :
                  IF (k + 1) % w = 0 /\ (k + 1 - w) \notin pending
                  THEN temp[k] = PaddedSum(k + 1 - w, k)
                  ELSE temp[k] = BeforeLevel[k]
            /\ \A l \in Lines : l.tag = "bl_up" =>
                  \A k \in 0..(P - 1) :
                      (k + 1) % Pow2(l.a + 1) = 0 =>
                          l.buf[k] = PaddedSum(k + 1 - Pow2(l.a + 1), k)

\* level 1, the last one, of the upsweep on 3 elements padded to 4 has
\* completed: element 3 holds the sum of the three elements and the padding
C18_Witness ==
    /\ pc = "up_for"
    /\ pending = {}
    /\ n = 3
    /\ level = 1
    /\ temp[3] = arr[0] + arr[1] + arr[2]
    /\ temp[1] = arr[0] + arr[1]
    /\ temp[2] = arr[2]

\* C19: after the last upsweep level the last element of the buffer holds the
\* sum of all P padded elements, which is the sum of the N elements of the
\* input; total_sum captures it and equals the last element of the inclusive
\* scan the engine returns.
C19_GrandTotal ==
    (prog = "scan" /\ n >= 1) =>
        /\ pc = "root" =>
              /\ temp[PaddedN(n) - 1] = PaddedSum(0, PaddedN(n) - 1)
              /\ temp[PaddedN(n) - 1] = RunningSum(arr, 0, n - 1)
        /\ pc \in {"down_loop", "down_for", "bl_finish"} =>
              total_sum = RunningSum(arr, 0, n - 1)
        /\ "bl" \in returned =>
              /\ total_sum = RunningSum(arr, 0, n - 1)
              /\ total_sum = ret.result1[n - 1]

\* the Blelloch scan has returned on 3 elements padded to 4 with the total of
\* the three as the last element of its result
C19_Witness ==
    /\ prog = "scan"
    /\ "bl" \in returned
    /\ n = 3
    /\ DOMAIN temp = 0..3
    /\ total_sum = arr[0] + arr[1] + arr[2]
    /\ ret.result1[2] = total_sum

\* C20: after the last downsweep level the buffer holds the exclusive scan over
\* the whole padded range: element i is the sum of the elements 0..i-1 of the
\* padded input, element 0 is 0; the line "Result (Exclusive)" shows it.
C20_ExclusiveScan ==
    (prog = "scan" /\ n >= 1) =>
        /\ (pc = "bl_finish" \/ (pc = "down_loop" /\ level < 0)) =>
              /\ DOMAIN temp = 0..(PaddedN(n) - 1)
              /\ temp[0] = 0
              /\ \A i \in 0..(PaddedN(n) - 1) : temp[i] = PaddedSum(0, i - 1)
        /\ \A l \in Lines : l.tag = "bl_exclusive" =>
              l.buf = [i \in 0..(PaddedN(n) - 1) |-> PaddedSum(0, i - 1)]

\* the downsweep on 3 elements padded to 4 has completed: the padding element
\* holds the sum of the three elements
C20_Witness ==
    /\ pc = "bl_finish"
    /\ n = 3
    /\ temp[0] = 0
    /\ temp[2] = arr[0] + arr[1]
    /\ temp[3] = arr[0] + arr[1] + arr[2]

\* ------------------------------------------------------------------- C21
RECURSIVE IsPow2(_)
IsPow2(x) == x = 1 \/ (x > 1 /\ x % 2 = 0 /\ IsPow2(x \div 2))

\* the buffer a "bl_initial" line shows agrees with buf as far as it is printed
ShownOf(buf, shown) == \A i \in DOMAIN shown : i \in DOMAIN buf /\ shown[i] = buf[i]

\* C21: once the Blelloch scan has built its buffer for N >= 1, the capacity P
\* is a power of two, P >= N, no smaller power of two is >= N, P = N when N is
\* a power of two, and P < 2N; the header prints that P; before the first
\* upsweep level positions [0, N) hold the input in order and [N, P) hold 0,
\* and that is the buffer the "Initial" line shows.
C21_PaddedBuffer ==
    (prog = "scan" /\ "bl" \in started /\ n >= 1) =>
        LET P == Size(temp) IN
        /\ DOMAIN temp = 0..(P - 1)
        /\ alloc_n = P
        /\ IsPow2(P) /\ P >= n /\ P < 2 * n
        /\ \A q \in 1..(P - 1) : IsPow2(q) => q < n
        /\ IsPow2(n) => P = n
        /\ \E k \in DOMAIN printed :
              printed[k].tag = "bl_padded" /\ printed[k].a = P
        /\ (pc = "up_loop" /\ level = 0) =>
              /\ \A i \in 0..(n - 1) : temp[i] = arr[i]
              /\ \A i \in n..(P - 1) : temp[i] = 0
              /\ \E k \in DOMAIN printed :
                    printed[k].tag = "bl_initial" /\ ShownOf(temp, printed[k].buf)

\* three elements padded to four, the pad holding 0, before the first level
C21_Witness ==
    /\ prog = "scan" /\ pc = "up_loop" /\ level = 0 /\ n = 3
    /\ Size(temp) = 4 /\ temp[3] = 0 /\ temp[2] = arr[2] /\ arr[2] # 0

\* ------------------------------------------------------------------- C22
\* the word that left-to-right combination of positions 0..i gives
InOrder(i) == [k \in 1..(i + 1) |-> k - 1]

\* w holds each of the positions 0..i once, in some order
EachOnce(w, i) == Len(w) = i + 1 /\ {w[k] : k \in 1..Len(w)} = 0..i

\* the value of a word when the operation is the addition of the code
RECURSIVE WordValue(_, _)
WordValue(a, w) == IF w = <<>> THEN 0 ELSE a[Head(w)] + WordValue(a, Tail(w))

\* C22 as stated: whatever the associative operation with identity, commutative
\* or not, every returned element combines positions 0..i from left to right.
C22_AnyOperation ==
    (prog = "scan" /\ "bl" \in returned) =>
        \A i \in 0..(n - 1) : sym[i] = InOrder(i)

\* C22, amended: every returned element combines each of the positions 0..i
\* exactly once, so the scan is the left-to-right inclusive scan for every
\* commutative associative operation with identity, and the sums of the code
\* are the values of these words all along the run; the operands come in
\* left-to-right order up to N = 3 only: from N = 4 on element 3 is
\* (s2 s0 s1) s3, the downsweep having put the left subtree's total s2 before
\* the prefix s0 s1 that precedes it.
C22_CommutativeOperation ==
    /\ (prog = "scan" /\ "bl" \in started /\ "bl" \notin returned) =>
          /\ DOMAIN sym = DOMAIN temp
          /\ \A k \in DOMAIN temp : temp[k] = WordValue(arr, sym[k])
    /\ (prog = "scan" /\ "bl" \in returned) =>
          /\ \A i \in 0..(n - 1) :
                /\ EachOnce(sym[i], i)
                /\ ret.result1[i] = WordValue(arr, sym[i])
          /\ n <= 3 => \A i \in 0..(n - 1) : sym[i] = InOrder(i)
          /\ n >= 4 => sym[3] = <<2, 0, 1, 3>>

\* four elements scanned: element 3 holds the four positions, out of order,
\* and the sums agree with the sequential scan
C22_Witness ==
    /\ prog = "scan" /\ "bl" \in returned /\ n = 4
    /\ sym[3] = <<2, 0, 1, 3>>
    /\ ret.result1 = sequential_prefix_sum(arr, n)

\* ------------------------------------------------------------------- C23
\* the greatest of a[lo], ..., a[hi - 1]
RangeMax(a, lo, hi) ==
    CHOOSE v \in {a[j] : j \in lo..(hi - 1)} : \A j \in lo..(hi - 1) : a[j] <= v

\* the indices below len that are multiples of step
Multiples(step, len) == {i \in 0..(len - 1) : i % step = 0}

\* buf holds, at every multiple i of step, the greatest input of i..min(i+step, N)-1
GroupMaxima(buf, step) ==
    \A i \in Multiples(step, n) \cap DOMAIN buf :
        buf[i] = RangeMax(arr, i, MinOf(i + step, n))

\* the buffer Method 4 showed before its line k: the line above, or the input
ShownBefore(k) ==
    IF printed[k].a = 0 THEN PrintedPrefix(arr, n) ELSE printed[k - 1].buf

\* C23: in both tree reductions, during the level of stride s every multiple
\* i of 2s holds the maximum of the input at i..min(i+s, N)-1 before its
\* iteration and of i..min(i+2s, N)-1 after it, so that with i + s >= N it
\* keeps its value; once the level is complete all of them hold the maximum of
\* i..min(i+2s, N)-1, which is what the lines of Method 4 show; after the last
\* level temp[0] is the maximum of the whole input.
C23_TreeInvariant ==
    prog = "max" =>
        /\ pc \in {"m2_for", "m4_for"} =>
              \A i \in Multiples(2 * stride, n) :
                  /\ i \in pending =>
                        temp[i] = RangeMax(arr, i, MinOf(i + stride, n))
                  /\ i \notin pending =>
                        temp[i] = RangeMax(arr, i, MinOf(i + 2 * stride, n))
        /\ pc = "m2_while" => GroupMaxima(temp, stride)
        /\ pc = "m4_loop" => GroupMaxima(temp, Pow2(level))
        /\ (pc = "m2_while" /\ ~WhileCond(stride, n)) => temp[0] = RangeMax(arr, 0, n)
        /\ (pc = "m4_loop" /\ level >= levels) => temp[0] = RangeMax(arr, 0, n)
        /\ \A k \in DOMAIN printed :
              printed[k].tag = "m4_after" =>
                  /\ GroupMaxima(printed[k].buf, 2 * printed[k].b)
                  /\ \A i \in Multiples(2 * printed[k].b, n) \cap DOMAIN printed[k].buf :
                        i + printed[k].b >= n => printed[k].buf[i] = ShownBefore(k)[i]

\* three elements, the level of stride 1 complete: temp[0] has taken the
\* greater neighbour, and index 2, without a partner, has kept the greatest
C23_Witness ==
    /\ prog = "max" /\ pc = "m2_for" /\ n = 3 /\ stride = 1 /\ pending = {}
    /\ arr[0] < arr[1] /\ temp[0] = arr[1]
    /\ temp[2] = arr[2]

\* ------------------------------------------------------------------- C24
\* the program counters of the engines, from call to return
EnginePcs ==
    {"m1_call", "m1_region", "m2_call", "m2_while", "m2_for", "m3_call", "m3_region",
     "m4_call", "m4_loop", "m4_for", "seq_max_call", "seq_scan_call",
     "bl_call", "up_loop", "up_for", "root", "down_loop", "down_for", "bl_finish",
     "rec_call", "p1_region", "p3_region"}

\* C24: no step of an engine changes the input of the caller: the tree
\* reductions and the Blelloch scan write to temp only, the threads of the
\* sections strategy to partial only, the block scan to result, partial and
\* block_prefix (phases 1 and 2) and to result (phase 3) only.
C24_InputUnchanged ==
    [][/\ pc \in EnginePcs => arr' = arr
       /\ pc \in {"m2_for", "m4_for", "up_for", "down_for", "root"} =>
             <<partial, result, block_prefix>>' = <<partial, result, block_prefix>>
       /\ pc = "m3_region" =>
             <<temp, result, block_prefix>>' = <<temp, result, block_prefix>>
       /\ pc = "p1_region" => temp' = temp
       /\ pc = "p3_region" =>
             <<temp, partial, block_prefix>>' = <<temp, partial, block_prefix>>]_vars

\* the tree reduction has returned with its working copy changed, the input as
\* it was generated: the greatest element, last in the input, is first in temp
C24_Witness ==
    /\ prog = "max" /\ "m2" \in returned /\ pc = "m3_call" /\ n = 3
    /\ arr[0] < arr[2] /\ temp[0] = arr[2] /\ temp # arr

\* ------------------------------------------------------------------- C25
\* the block indices the threads of the running region have processed
Processed == (0..(team - 1)) \ pending

\* C25: whatever team the runtime gives a region of the sections strategy or of
\* the block scan, when the region ends every block index 0..num_threads-1 has
\* been processed (by the one thread of that number), so every non-empty block
\* has its maximum in partial_max (sections), its total in block_sums (phase
\* 1), and its prefix added to its elements (phase 3).
C25_EveryBlockProcessed ==
    (pc \in {"m3_region", "p1_region", "p3_region"} /\ BarrierReached(pending)) =>
        /\ Processed = 0..(num_threads - 1)
        /\ \A b \in 0..(num_threads - 1) :
              LET lo == ChunkStart(b, n, num_threads)
                  hi == ChunkEnd(b, n, num_threads)
              IN  lo < hi =>
                    /\ pc = "m3_region" => partial[b] = RangeMax(arr, lo, hi)
                    /\ pc = "p1_region" => partial[b] = RunningSum(arr, lo, hi - 1)
                    /\ pc = "p3_region" =>
                          \A i \in lo..(hi - 1) : result[i] = RunningSum(arr, 0, i)

\* ------------------------------------------------------------------- C26
Engines(p) == IF p = "max" THEN {"m1", "m2", "m3", "m4", "seq"} ELSE {"seq", "bl", "rec"}

\* the levels an engine has completed never exceed those its loops are to run
LevelsBounded ==
    /\ pc \in {"m2_while", "m2_for"} => syncs <= LogN(n) /\ stride <= PaddedN(n)
    /\ pc \in {"m4_loop", "m4_for"} => syncs = level /\ level <= levels /\ levels = LogN(n)
    /\ pc \in {"up_loop", "up_for"} => syncs = level /\ level <= levels /\ levels = LogN(n)
    /\ pc \in {"down_loop", "down_for"} =>
          syncs = 2 * levels - 1 - level /\ level >= -1 /\ level < levels
    /\ pc \in {"p1_region", "p3_region"} => syncs <= 1

\* C26: a run of main whose steps keep being scheduled reaches the exit of
\* main, and when it has read N >= 1 every engine of the program was called
\* and has returned by then: the tree reductions after at most ceil(log2 N)
\* levels, each phase of the Blelloch scan after log2(P) levels, the regions of
\* the block engines after one barrier each.
C26_EnginesTerminate ==
    /\ [](LevelsBounded /\ (Finished => returned = Engines(prog)))
    /\ <>(pc = "exit")

\* the tree reduction has returned on four elements after its two levels
C26_Witness ==
    /\ prog = "max" /\ n = 4 /\ "m2" \in returned /\ pc = "m3_call"
    /\ stride = 4 /\ syncs = 2

\* ------------------------------------------------------------------- C27
\* C27: a tree reduction called on N elements, 1 <= N <= 2^(w-1)-1, never
\* computes a stride, a loop increment, a loop counter or an index outside the
\* range of the w-bit int (stride stays a positive power of two, 2*stride is at
\* most the greatest int, and so is the counter i after its last i += 2*stride,
\* which is below N + 2*stride), the call fails in no way, and it returns the
\* greatest element.
C27_NoOverflow ==
    (prog = "max" /\ direct /\ 1 <= n /\ n <= MaxInt(int_bits)) =>
        /\ failure = "none"
        /\ pc \notin {"crashed", "undefined"}
        /\ pc \in {"m2_while", "m2_for", "m4_for"} => IsPow2(stride)
        /\ (pc \in {"m2_for", "m4_for"} \/ (pc = "m2_while" /\ WhileCond(stride, n))) =>
              /\ stride <= MaxInt(int_bits) \div 2
              /\ n + 2 * stride - 1 <= MaxInt(int_bits)
        /\ pc = "done" =>
              /\ "m2" \in started => ret.max2 = Greatest(arr)
              /\ "m4" \in started => ret.max4 = Greatest(arr)

\* ------------------------------------------------------------------- C28
\* C28: every index an iteration or a thread still to run will read or write
\* is an index of the vector it indexes: [0, N) of temp in the tree
\* reductions, [0, P) of temp in the sweeps and at the root, [0, N) of arr and
\* result and [0, W) of partial and block_prefix in the block engines, and
\* index 0 of temp at the return of a tree reduction.
C28_InBounds ==
    /\ pc \in {"m2_for", "m4_for"} =>
          /\ DOMAIN temp = 0..(n - 1)
          /\ \A i \in pending :
                i \in 0..(n - 1)
                    /\ TreeReads(i, stride, n) \cup TreeWrites(i, stride, n) \subseteq 0..(n - 1)
    /\ pc \in {"m2_while", "m4_loop"} => 0 \in DOMAIN temp
    /\ pc \in {"up_for", "down_for"} =>
          /\ DOMAIN temp = 0..(PaddedN(n) - 1)
          /\ \A i \in pending :
                UpReads(i, level) \cup UpWrites(i, level)
                    \cup DownReads(i, level) \cup DownWrites(i, level)
                        \subseteq 0..(PaddedN(n) - 1)
    /\ pc = "root" => RootIndex(PaddedN(n)) \in DOMAIN temp
    /\ pc = "bl_finish" => 0..(n - 1) \subseteq (DOMAIN temp \cap DOMAIN arr)
    /\ pc \in {"m3_region", "p1_region", "p3_region"} =>
          /\ DOMAIN arr = 0..(n - 1)
          /\ DOMAIN partial = 0..(num_threads - 1)
          /\ pc # "m3_region" => DOMAIN result = 0..(n - 1)
          /\ pc = "p3_region" => DOMAIN block_prefix = 0..(num_threads - 1)
          /\ \A tid \in pending :
                /\ tid \in 0..(num_threads - 1)
                /\ BlockRange(tid, n, num_threads) \subseteq 0..(n - 1)

\* three elements, level of stride 1: iteration 2 is still to run and has no
\* partner below N, iteration 0 reads indices 0 and 1
C28_Witness ==
    /\ prog = "max" /\ pc = "m2_for" /\ n = 3 /\ stride = 1 /\ 2 \in pending
    /\ TreeReads(2, stride, n) = {}
    /\ TreeReads(0, stride, n) = {0, 1}

\* ------------------------------------------------------------------- C29
\* C29: a tree reduction on N elements has performed exactly N-1 max-combines
\* when its loop ends, never more on the way, in ceil(log2 N) levels; the
\* Blelloch scan has performed exactly P-1 combines when the upsweep ends and
\* exactly P-1 more when the downsweep ends, in ceil(log2 N) levels each, and
\* P-1 < 2N-1.
C29_ExactWork ==
    /\ pc \in {"m2_while", "m2_for", "m4_loop", "m4_for"} => ops <= n - 1
    /\ (pc = "m2_while" /\ ~WhileCond(stride, n)) =>
          ops = n - 1 /\ syncs = CeilLog2(n)
    /\ (pc = "m4_loop" /\ level >= levels) =>
          ops = n - 1 /\ syncs = CeilLog2(n)
    /\ (prog = "max" /\ pc = "m3_call") => ops = n - 1
    /\ (prog = "max" /\ "m4" \in returned) => ops = n - 1
    /\ pc \in {"up_loop", "up_for", "down_loop", "down_for"} => ops <= Size(temp) - 1
    /\ pc = "root" =>
          ops = Size(temp) - 1 /\ syncs = CeilLog2(n)
    /\ (prog = "scan" /\ (pc = "bl_finish" \/ "bl" \in returned)) =>
          /\ ops = Size(temp) - 1
          /\ ops < 2 * n - 1
          /\ levels = CeilLog2(n)
    /\ pc = "bl_finish" => syncs = 2 * CeilLog2(n)

\* Method 4 has returned on three elements after two max-combines, the
\* iteration at index 2 of the first level having had no partner
C29_Witness ==
    /\ prog = "max" /\ n = 3 /\ "m4" \in returned /\ ops = 2 /\ levels = 2

\* ------------------------------------------------------------------- C30
\* the buffer after the first k levels (strides 1, 2, ..., 2^(k-1)) of the
\* tree reduction of the input, the iterations taken in index order
RECURSIVE AfterLevels(_)
AfterLevels(k) ==
    IF k = 0 THEN arr
    ELSE TreeLevelAsc(AfterLevels(k - 1), LevelIters(n, Pow2(k - 1)), Pow2(k - 1), n)

\* C30: Method 2 and Method 4 run the same levels: the k-th level of either
\* has stride 2^k, the buffer of either after its k-th level is the same
\* function of the input and k (also on the lines Method 4 prints), the count
\* Method 4 computes by halving is the number of passes of the loop of Method
\* 2, and the two return the same value.
C30_TreeMethodsEquivalent ==
    prog = "max" =>
        /\ pc = "m2_while" =>
              /\ stride = Pow2(syncs)
              /\ temp = AfterLevels(syncs)
              /\ ~WhileCond(stride, n) => syncs = ExplicitLevels(n)
        /\ pc = "m2_for" =>
              /\ stride = Pow2(syncs)
              /\ pending = {} => temp = AfterLevels(syncs + 1)
        /\ pc = "m4_loop" =>
              /\ level = syncs
              /\ levels = TreeLevels(1, n)
              /\ temp = AfterLevels(level)
        /\ pc = "m4_for" =>
              /\ level = syncs
              /\ stride = Pow2(level)
              /\ pending = {} => temp = AfterLevels(level + 1)
        /\ \A k \in DOMAIN printed :
              printed[k].tag = "m4_after" =>
                  /\ printed[k].b = Pow2(printed[k].a)
                  /\ printed[k].buf = PrintedPrefix(AfterLevels(printed[k].a + 1), n)
        /\ {"m2", "m4"} \subseteq returned => ret.max2 = ret.max4

\* both methods have returned the last and greatest of three elements, after
\* the two levels Method 4 counted
C30_Witness ==
    /\ prog = "max" /\ n = 3 /\ {"m2", "m4"} \subseteq returned
    /\ levels = 2 /\ syncs = 2
    /\ arr[0] < arr[2] /\ ret.max2 = arr[2] /\ ret.max4 = arr[2]

====
